---- MODULE Spec2Model ----
(***************************************************************************)
(* Request routing subsystem of the Osmanli AI assistant: conversation     *)
(* memory (memory.py), request dispatcher (dispatcher.py) and the          *)
(* plugin / agent registries (plugin_manager_util.py, agent_manager.py).   *)
(*                                                                         *)
(* Python strings are sequences of one-character strings, so that          *)
(* substring tests, lower(), split() and strip() are computed as the code  *)
(* computes them; the fixed texts of responses are kept as single          *)
(* elements.  Python's None is the record NoneVal.                         *)
(***************************************************************************)
EXTENDS Integers, Sequences, FiniteSets, TLC

VARIABLES
    history,             \* ConversationMemory.history
    max_history_length,  \* ConversationMemory.max_history_length
    added,               \* observation: messages passed to add_message since construction / last clear
    cleared,             \* observation: clear_history has been called
    got,                 \* observation: value returned by the last get_history call
    plugins,             \* PluginManager.plugins, in insertion order: <<[name, inst]>>
    agents,              \* AgentManager.agents, in insertion order: <<[name, inst]>>
    quran,               \* Assistant.quran is a loaded knowledge base
    scan,                \* the directory that load_plugins and load_agents scan
    loaded,              \* observation: the load that has just completed, and its outcome
    loads,               \* observation: number of completed loads
    shut,                \* observation: the shutdown() that has just ended, and its outcome
    pending_action,      \* Assistant.pending_action
    fs,                  \* directories and files of the file system
    effects,             \* observation: calls made on collaborators by that route call
    request,             \* arguments of the route call in progress
    last,                \* observation: the route call that has just completed, and its outcome
    prior,               \* observation: the pending action that the route call before it answered "yes" to
    calls,               \* observation: number of completed route calls
    turns,               \* number of process_query calls begun
    awaiting,            \* the process_query calls suspended in await agent.process_task(...)
    returned,            \* observation: the process_query call that has just ended, and its outcome
    components,          \* the BaseComponent instances: [_status, metadata, inits]
    initialized,         \* observation: the initialize() call that has just ended, and its outcome
    init_calls           \* observation: number of initialize() calls made

memVars == <<history, max_history_length, added, cleared, got>>
registryVars == <<plugins, agents, quran, scan, loaded, loads, shut>>
routeVars == <<pending_action, fs, effects, request, last, prior, calls>>
sessionVars == <<turns, awaiting, returned>>
componentVars == <<components, initialized, init_calls>>
vars == <<memVars, registryVars, routeVars, sessionVars, componentVars>>

(***************************************************************************)
(* Bounds of the model.                                                    *)
(***************************************************************************)
MaxHistoryBound == 3
MaxAdds == 4
MaxCalls == 2
MaxFiles == 3
MaxLoads == 2
MaxTurns == 2
MaxComponents == 3
MaxChatLen == 6
MaxInitCalls == 4

\* ConversationMemory.__init__: max_history_length defaults to 50
DefaultMaxHistory == 50

(***************************************************************************)
(* Texts: keywords of the dispatcher, queries and message contents.        *)
(***************************************************************************)
S_Hello ==
    <<"H","e","l","l","o">>
S_Hi_there ==
    <<"H","i"," ","t","h","e","r","e","!">>
\* The keywords and fixed words of the dispatcher
K ==
    [hello |-> <<"h","e","l","l","o">>,
     hi |-> <<"h","i">>,
     greetings |-> <<"g","r","e","e","t","i","n","g","s">>,
     how_are_you |-> <<"h","o","w"," ","a","r","e"," ","y","o","u">>,
     what_is_your_name |->
        <<"w","h","a","t"," ","i","s"," ","y","o","u","r"," ","n","a","m","e">>,
     time |-> <<"t","i","m","e">>,
     clear_chat |-> <<"c","l","e","a","r"," ","c","h","a","t">>,
     list_plugins |-> <<"l","i","s","t"," ","p","l","u","g","i","n","s">>,
     what_can_you_do |->
        <<"w","h","a","t"," ","c","a","n"," ","y","o","u"," ","d","o">>,
     neovim |-> <<"n","e","o","v","i","m">>,
     nvim |-> <<"n","v","i","m">>,
     code |-> <<"c","o","d","e">>,
     editor |-> <<"e","d","i","t","o","r">>,
     buffer |-> <<"b","u","f","f","e","r">>,
     insert_text |-> <<"i","n","s","e","r","t"," ","t","e","x","t">>,
     execute_command |->
        <<"e","x","e","c","u","t","e"," ","c","o","m","m","a","n","d">>,
     get_current_code |->
        <<"g","e","t"," ","c","u","r","r","e","n","t"," ","c","o","d","e">>,
     read_buffer |-> <<"r","e","a","d"," ","b","u","f","f","e","r">>,
     execute_nvim_command |->
        <<"e","x","e","c","u","t","e"," ","n","v","i","m"," ","c","o","m","m","a","n","d">>,
     copilot |-> <<"c","o","p","i","l","o","t">>,
     review_project |-> <<"r","e","v","i","e","w"," ","p","r","o","j","e","c","t">>,
     analyze_code |-> <<"a","n","a","l","y","z","e"," ","c","o","d","e">>,
     project_structure |->
        <<"p","r","o","j","e","c","t"," ","s","t","r","u","c","t","u","r","e">>,
     quran |-> <<"q","u","r","a","n">>,
     surah |-> <<"s","u","r","a","h">>,
     verse |-> <<"v","e","r","s","e">>,
     recite |-> <<"r","e","c","i","t","e">>,
     play_quran |-> <<"p","l","a","y"," ","q","u","r","a","n">>,
     quran_chapter |-> <<"q","u","r","a","n"," ","c","h","a","p","t","e","r">>,
     quran_verse |-> <<"q","u","r","a","n"," ","v","e","r","s","e">>,
     quran_search |-> <<"q","u","r","a","n"," ","s","e","a","r","c","h">>,
     quran_recite |-> <<"q","u","r","a","n"," ","r","e","c","i","t","e">>,
     quran_pause |-> <<"q","u","r","a","n"," ","p","a","u","s","e">>,
     quran_resume |-> <<"q","u","r","a","n"," ","r","e","s","u","m","e">>,
     quran_stop |-> <<"q","u","r","a","n"," ","s","t","o","p">>,
     chapter |-> <<"c","h","a","p","t","e","r">>,
     play |-> <<"p","l","a","y">>,
     price_of |-> <<"p","r","i","c","e"," ","o","f">>,
     overview_of |-> <<"o","v","e","r","v","i","e","w"," ","o","f">>,
     stock |-> <<"s","t","o","c","k">>,
     monitor |-> <<"m","o","n","i","t","o","r">>,
     finance |-> <<"f","i","n","a","n","c","e">>,
     market |-> <<"m","a","r","k","e","t">>,
     analyze |-> <<"a","n","a","l","y","z","e">>,
     generate |-> <<"g","e","n","e","r","a","t","e">>,
     generate_code |-> <<"g","e","n","e","r","a","t","e"," ","c","o","d","e">>,
     dummy |-> <<"d","u","m","m","y">>,
     refactor |-> <<"r","e","f","a","c","t","o","r">>,
     debug |-> <<"d","e","b","u","g">>,
     yes |-> <<"y","e","s">>,
     no |-> <<"n","o">>,
     python |-> <<"p","y","t","h","o","n"," ">>,
     test_runner |-> <<"t","e","s","t","_","r","u","n","n","e","r",".","p","y">>,
     test_cases |-> <<"t","e","s","t","_","c","a","s","e","s">>,
     cd |-> <<"c","d"," ">>,
     and |-> <<"&","&"," ">>,
     god |-> <<"g","o","d">>]
\* The queries submitted to route
Q ==
    [hello |-> <<"H","e","l","l","o">>,
     multilink |->
        <<"h","e","l","l","o",";"," ","w","h","a","t"," ","i","s"," ","y","o","u","r"," ","n","a","m","e">>,
     yes |-> <<"y","e","s">>,
     no |-> <<"N","o">>,
     no_semi |-> <<"n","o",";">>,
     yes_no |-> <<" ","y","e","s"," ",";",";"," ","n","o">>,
     read_buffer |-> <<"r","e","a","d"," ","b","u","f","f","e","r">>,
     insert_text |-> <<"i","n","s","e","r","t"," ","t","e","x","t">>,
     code_copilot |-> <<"c","o","d","e"," ","c","o","p","i","l","o","t">>,
     editor |-> <<"o","p","e","n"," ","e","d","i","t","o","r">>,
     review_project |-> <<"r","e","v","i","e","w"," ","p","r","o","j","e","c","t">>,
     analyze_code |-> <<"a","n","a","l","y","z","e"," ","c","o","d","e">>,
     quran_chapter_1 |->
        <<"q","u","r","a","n"," ","c","h","a","p","t","e","r"," ","1">>,
     quran_chapter_x |->
        <<"q","u","r","a","n"," ","c","h","a","p","t","e","r"," ","x">>,
     price_of |-> <<"p","r","i","c","e"," ","o","f"," ","x">>,
     analyze_dummy |->
        <<"a","n","a","l","y","z","e"," ","t","h","i","s"," ","d","u","m","m","y"," ","c","o","d","e">>,
     analyze_dummy2 |-> <<"a","n","a","l","y","z","e"," ","d","u","m","m","y">>,
     generate_dummy |-> <<"g","e","n","e","r","a","t","e"," ","d","u","m","m","y">>,
     tell_me_more |-> <<"t","e","l","l"," ","m","e"," ","m","o","r","e">>,
     semi |-> <<";">>,
     clear_chat |-> <<"c","l","e","a","r"," ","c","h","a","t">>,
     list_plugins |-> <<"l","i","s","t"," ","p","l","u","g","i","n","s">>,
     more_then_yes |->
        <<"t","e","l","l"," ","m","e"," ","m","o","r","e",";"," ","y","e","s">>,
     maybe |-> <<"m","a","y","b","e">>,
     dummy_task |-> <<"d","u","m","m","y"," ","t","a","s","k">>,
     analyze_Dummy |-> <<"a","n","a","l","y","z","e"," ","D","u","m","m","y">>,
     clear_chat_history |->
        <<"c","l","e","a","r"," ","c","h","a","t"," ","h","i","s","t","o","r","y">>,
     what_time |-> <<"w","h","a","t"," ","t","i","m","e"," ","i","s"," ","i","t">>,
     quran_verse_2 |-> <<"q","u","r","a","n"," ","v","e","r","s","e"," ","2">>,
     quran_recite_range3 |->
        <<"q","u","r","a","n"," ","r","e","c","i","t","e"," ","1"," ","1","-","2","-","3">>,
     quran_recite_letters |->
        <<"q","u","r","a","n"," ","r","e","c","i","t","e"," ","1"," ","a",",","b">>,
     play_recite_range3 |->
        <<"p","l","a","y"," ","q","u","r","a","n"," ","r","e","c","i","t","e"," ","1"," ","1","-","2","-","3">>,
     play_quran |-> <<"p","l","a","y"," ","q","u","r","a","n">>]

(***************************************************************************)
(* Python string operations on character sequences.                        *)
(***************************************************************************)
UpperChars ==
    <<"A","B","C","D","E","F","G","H","I","J","K","L","M",
      "N","O","P","Q","R","S","T","U","V","W","X","Y","Z">>
LowerChars ==
    <<"a","b","c","d","e","f","g","h","i","j","k","l","m",
      "n","o","p","q","r","s","t","u","v","w","x","y","z">>
Whitespace == {" ", "\t", "\n", "\r"}
Digits == <<"0","1","2","3","4","5","6","7","8","9">>

LowerChar(c) ==
    IF \E k \in 1..26 : UpperChars[k] = c
    THEN LowerChars[CHOOSE k \in 1..26 : UpperChars[k] = c]
    ELSE c

UpperChar(c) ==
    IF \E k \in 1..26 : LowerChars[k] = c
    THEN UpperChars[CHOOSE k \in 1..26 : LowerChars[k] = c]
    ELSE c

\* str.capitalize(): the first character upper-cased, the others lower-cased
Capitalize(s) ==
    [i \in 1..Len(s) |-> IF i = 1 THEN UpperChar(s[i]) ELSE LowerChar(s[i])]

\* str.lower()
Lower(s) == [i \in 1..Len(s) |-> LowerChar(s[i])]

\* kw in s
Contains(s, kw) ==
    \E i \in 1..(Len(s) - Len(kw) + 1) : SubSeq(s, i, i + Len(kw) - 1) = kw

\* any(kw in s for kw in kws)
ContainsAny(s, kws) == \E kw \in kws : Contains(s, kw)

\* s.split(sep) for a one-character separator: the pieces, empty ones included
RECURSIVE Split(_, _)
Split(s, sep) ==
    IF \A i \in 1..Len(s) : s[i] # sep
    THEN <<s>>
    ELSE LET i == CHOOSE j \in 1..Len(s) : s[j] = sep /\ \A k \in 1..(j - 1) : s[k] # sep
         IN  <<SubSeq(s, 1, i - 1)>> \o Split(SubSeq(s, i + 1, Len(s)), sep)

\* s.strip()
Strip(s) ==
    IF \A i \in 1..Len(s) : s[i] \in Whitespace
    THEN <<>>
    ELSE LET first == CHOOSE i \in 1..Len(s) :
                          s[i] \notin Whitespace /\ \A k \in 1..(i - 1) : s[k] \in Whitespace
             final == CHOOSE i \in 1..Len(s) :
                          s[i] \notin Whitespace /\ \A k \in (i + 1)..Len(s) : s[k] \in Whitespace
         IN  SubSeq(s, first, final)

\* s.split(): maximal runs of non-whitespace characters
RECURSIVE SplitWords(_)
SplitWords(s) ==
    LET t == Strip(s)
    IN  IF t = <<>>
        THEN <<>>
        ELSE IF \A i \in 1..Len(t) : t[i] \notin Whitespace
        THEN <<t>>
        ELSE LET i == CHOOSE j \in 1..Len(t) :
                          t[j] \in Whitespace /\ \A k \in 1..(j - 1) : t[k] \notin Whitespace
             IN  <<SubSeq(t, 1, i - 1)>> \o SplitWords(SubSeq(t, i + 1, Len(t)))

\* sep.join(parts)
RECURSIVE Join(_, _)
Join(parts, sep) ==
    IF parts = <<>> THEN <<>>
    ELSE IF Len(parts) = 1 THEN parts[1]
    ELSE parts[1] \o sep \o Join(Tail(parts), sep)

\* s.replace(old, ""): every non-overlapping occurrence of old removed, left to right
RECURSIVE Remove(_, _)
Remove(s, old) ==
    IF old = <<>> \/ ~Contains(s, old)
    THEN s
    ELSE LET i == CHOOSE j \in 1..(Len(s) - Len(old) + 1) :
                      /\ SubSeq(s, j, j + Len(old) - 1) = old
                      /\ \A k \in 1..(j - 1) : SubSeq(s, k, k + Len(old) - 1) # old
         IN  SubSeq(s, 1, i - 1) \o Remove(SubSeq(s, i + Len(old), Len(s)), old)

\* parts.index(word): 0 when absent (the code's ValueError)
IndexOf(parts, word) ==
    IF \E i \in 1..Len(parts) : parts[i] = word
    THEN CHOOSE i \in 1..Len(parts) : parts[i] = word /\ \A k \in 1..(i - 1) : parts[k] # word
    ELSE 0

\* int(s) succeeds: an optional sign followed by decimal digits
IsInt(s) ==
    LET body == IF Len(s) > 0 /\ s[1] \in {"+", "-"} THEN Tail(s) ELSE s
    IN  /\ Len(body) > 0
        /\ \A i \in 1..Len(body) : \E d \in 1..10 : Digits[d] = body[i]

DigitVal(c) == (CHOOSE d \in 1..10 : Digits[d] = c) - 1

RECURSIVE NatVal(_)
NatVal(s) ==
    IF s = <<>> THEN 0
    ELSE NatVal(SubSeq(s, 1, Len(s) - 1)) * 10 + DigitVal(s[Len(s)])

\* int(s) for a string that IsInt accepts
IntVal(s) ==
    IF s[1] = "-" THEN 0 - NatVal(Tail(s))
    ELSE IF s[1] = "+" THEN NatVal(Tail(s))
    ELSE NatVal(s)

\* str(n) for a natural number
RECURSIVE NatStr(_)
NatStr(n) ==
    IF n < 10 THEN <<Digits[n + 1]>>
    ELSE NatStr(n \div 10) \o <<Digits[(n % 10) + 1]>>

IntStr(n) == IF n < 0 THEN <<"-">> \o NatStr(0 - n) ELSE NatStr(n)

\* Python values: a str and None
Str(s) == [kind |-> "str", value |-> s]
NoneVal == [kind |-> "none", value |-> <<>>]
\* truthiness of a str-or-None value
Truthy(v) == v.kind = "str" /\ v.value # <<>>

(***************************************************************************)
(* ConversationMemory (memory.py)                                          *)
(***************************************************************************)
Roles == {"user", "assistant", "system"}
Contents == {S_Hello, S_Hi_there}

NotCalled == [kind |-> "not_called", n |-> 0, value |-> <<>>]

\* The last n elements of s (all of s when it is shorter).
LastN(s, n) ==
    IF Len(s) <= n THEN s ELSE SubSeq(s, Len(s) - n + 1, Len(s))

\* list[k:] of Python: a negative start counts from the end, both clamped.
PySliceFrom(s, k) ==
    LET n == Len(s)
        start == IF k < 0 THEN (IF n + k < 0 THEN 0 ELSE n + k)
                          ELSE (IF k > n THEN n ELSE k)
    IN  SubSeq(s, start + 1, n)

\* mutant of HistoryAfterAdd: evicts the newest entry instead of the oldest
HistoryAfterAdd_evict_newest(h, limit, msg) ==
    LET appended == Append(h, msg)
    IN  IF Len(appended) > limit
        THEN SubSeq(appended, 1, Len(appended) - 1)
        ELSE appended

\* mutant of HistoryAfterAdd: the overflow check is skipped
HistoryAfterAdd_no_evict(h, limit, msg) ==
    Append(h, msg)

\* self.history.append(message); if len(self.history) > max: self.history.pop(0)
HistoryAfterAdd(h, limit, msg) ==
    LET appended == Append(h, msg)
    IN  IF Len(appended) > limit
        THEN Tail(appended)
        ELSE appended

\* get_history(num_messages): -1 is the "all" sentinel, otherwise history[-num_messages:]
HistorySlice(h, num_messages) ==
    IF num_messages = -1
    THEN h
    ELSE PySliceFrom(h, 0 - num_messages)

\* the characters of msg['role']
RoleText(role) ==
    CASE role = "user" -> <<"u","s","e","r">>
      [] role = "assistant" -> <<"a","s","s","i","s","t","a","n","t">>
      [] role = "system" -> <<"s","y","s","t","e","m">>

\* the loop of get_full_context_text:
\* context_str += f"{msg['role'].capitalize()}: {msg['content']}\n"
RECURSIVE ContextStr(_)
ContextStr(msgs) ==
    IF msgs = <<>>
    THEN <<>>
    ELSE Capitalize(RoleText(msgs[1].role)) \o <<":", " ">> \o msgs[1].content \o <<"\n">>
         \o ContextStr(Tail(msgs))

\* get_full_context_text(num_messages)
ContextText(h, num_messages) ==
    Strip(ContextStr(HistorySlice(h, num_messages)))

(***************************************************************************)
(* Request dispatcher (dispatcher.py).                                     *)
(*                                                                         *)
(* A handler is an operator from its arguments, the assistant's mutable    *)
(* state st = [history, pending_action, fs, effects] and the behaviour of  *)
(* the collaborators during the call (env) to a result                     *)
(* [ret, raised, st]: the value returned, whether an exception left the    *)
(* handler instead, and the state afterwards.                              *)
(***************************************************************************)
Ret(v, st) == [ret |-> v, raised |-> FALSE, st |-> st]
Raise(st) == [ret |-> NoneVal, raised |-> TRUE, st |-> st]

\* A call on a collaborator, recorded in the order the calls are made.
Effect(op, arg) == [op |-> op, arg |-> arg]
Log(st, op, arg) == [st EXCEPT !.effects = Append(@, Effect(op, arg))]

\* Assistant.pending_action = None
NoAction == [type |-> "none", arg |-> <<>>]

\* PluginManager.get_plugin(name) on the registry `plugins`
HasPlugin(name) == \E i \in 1..Len(plugins) : plugins[i].name = name
get_plugin(name) == plugins[CHOOSE i \in 1..Len(plugins) : plugins[i].name = name].inst

\* plugin.process(query, context): the plugin returns a str, returns None or raises
PluginProcess(name, out, st) ==
    LET st1 == Log(st, "process", <<name>>)
    IN  IF out.kind = "raise" THEN Raise(st1) ELSE Ret(out, st1)

\* The fixed response texts of the dispatcher
T ==
    [greeting |->
        <<"Greetings, seeker of knowledge! How may I assist you today?">>,
     how_are_you |->
        <<"I am an AI, so I don't experience feelings, but I am functioning optimally and ready to assist you!">>,
     name |-> <<"I am Osmanli AI, your dedicated assistant.">>,
     time |-> <<"The current time is ", "%H:%M:%S", ".">>,
     cleared |-> <<"Conversation history cleared. Ready for a fresh start!">>,
     no_plugins |->
        <<"I currently have no plugins loaded. My capabilities are limited.">>,
     plugins_header |-> <<"I have the following plugins available:", "\n">>,
     no_bridge |->
        <<"I'm unable to connect to the Neovim bridge. Please ensure the Neovim bridge server is running.">>,
     neovim_help |->
        <<"I can interact with Neovim. What specifically about code or the editor would you like to do? (e.g., 'get current code', 'generate code', 'execute command')">>,
     no_text |-> <<"No text provided to insert.">>,
     no_nvim_command |-> <<"No Neovim command provided to execute.">>,
     no_copilot |->
        <<"The Copilot plugin is not available. Cannot assist with code generation.">>,
     need_path |->
        <<"To review a project, please tell me the path or use the 'Review Project' button in the GUI to select one.">>,
     cancelled |-> <<"Action cancelled.">>,
     quran_off |->
        <<"Quran knowledge base is not loaded or enabled in configuration.">>,
     chapter_hint |->
        <<"Please specify a valid chapter number (e.g., 'quran chapter 1').">>,
     verse_hint |->
        <<"Please specify a valid chapter and verse number (e.g., 'quran verse 2 10').">>,
     search_hint |->
        <<"Please provide a keyword to search for (e.g., 'quran search God is one').">>,
     recite_hint |->
        <<"Please specify a valid chapter and verse(s) for recitation (e.g., 'quran recite 1 1', 'quran recite 1 1-5', 'quran recite 1 1,3,5', 'quran recite chapter 1', or 'play quran chapter 1').">>,
     no_stock |-> <<"The Stock Monitor plugin is not available.">>,
     need_code |-> <<"Please provide the code to analyze in the context.">>,
     need_prompt |-> <<"Please provide a prompt for code generation.">>]

_clear_chat(st) ==
    Ret(Str(T.cleared), [st EXCEPT !.history = <<>>])

_list_plugins(st) ==
    LET plugins_info == [i \in 1..Len(plugins) |-> <<"- **", plugins[i].name, "**">>]
    IN  IF plugins_info # <<>>
        THEN Ret(Str(T.plugins_header \o Join(plugins_info, <<"\n">>)), st)
        ELSE Ret(Str(T.no_plugins), st)

\* mutant of _handle_internal_commands: 'clear chat' is tried first
_handle_internal_commands_clear_first(query_lower, st) ==
    IF Contains(query_lower, K.clear_chat)
    THEN _clear_chat(st)
    ELSE IF ContainsAny(query_lower, {K.hello, K.hi, K.greetings})
    THEN Ret(Str(T.greeting), st)
    ELSE IF Contains(query_lower, K.how_are_you)
    THEN Ret(Str(T.how_are_you), st)
    ELSE IF Contains(query_lower, K.what_is_your_name)
    THEN Ret(Str(T.name), st)
    ELSE IF Contains(query_lower, K.time)
    THEN Ret(Str(T.time), st)
    ELSE IF ContainsAny(query_lower, {K.list_plugins, K.what_can_you_do})
    THEN _list_plugins(st)
    ELSE Ret(NoneVal, st)

\* the command table is tried in its insertion order
_handle_internal_commands(query_lower, st) ==
    IF ContainsAny(query_lower, {K.hello, K.hi, K.greetings})
    THEN Ret(Str(T.greeting), st)
    ELSE IF Contains(query_lower, K.how_are_you)
    THEN Ret(Str(T.how_are_you), st)
    ELSE IF Contains(query_lower, K.what_is_your_name)
    THEN Ret(Str(T.name), st)
    ELSE IF Contains(query_lower, K.time)
    THEN Ret(Str(T.time), st)
    ELSE IF Contains(query_lower, K.clear_chat)
    THEN _clear_chat(st)
    ELSE IF ContainsAny(query_lower, {K.list_plugins, K.what_can_you_do})
    THEN _list_plugins(st)
    ELSE Ret(NoneVal, st)


\* self.assistant.neovim_client: Assistant defines neovim_bridge_client only,
\* so the attribute lookup raises AttributeError
_get_neovim_buffer(st) == Raise(st)

\* self.assistant.neovim_bridge: not an attribute of Assistant either
_insert_neovim_text(context, st) ==
    IF context.text_to_insert = <<>>
    THEN Ret(Str(T.no_text), st)
    ELSE Raise(st)

_execute_neovim_command(context, st) ==
    IF context.nvim_command = <<>>
    THEN Ret(Str(T.no_nvim_command), st)
    ELSE Raise(st)

_run_copilot(query, context, st, env) ==
    IF HasPlugin("CopilotPlugin")
    THEN PluginProcess("CopilotPlugin", env.plugin_out, st)
    ELSE Ret(Str(T.no_copilot), st)

_handle_neovim_requests(query_lower, query, context, st, env) ==
    IF ~ContainsAny(query_lower, {K.neovim, K.nvim, K.code, K.editor, K.buffer,
                                  K.insert_text, K.execute_command})
    THEN Ret(NoneVal, st)
    ELSE LET st1 == Log(st, "connect", <<>>)
         IN  IF env.connect = "raise"
             THEN Raise(st1)
             ELSE IF env.connect = "false"
             THEN Ret(Str(T.no_bridge), st1)
             ELSE IF ContainsAny(query_lower, {K.get_current_code, K.read_buffer})
             THEN _get_neovim_buffer(st1)
             ELSE IF Contains(query_lower, K.insert_text)
             THEN _insert_neovim_text(context, st1)
             ELSE IF Contains(query_lower, K.execute_nvim_command)
             THEN _execute_neovim_command(context, st1)
             ELSE IF Contains(query_lower, K.copilot)
             THEN _run_copilot(query, context, st1, env)
             ELSE Ret(Str(T.neovim_help), st1)


\* mutant of conduct_project_review: the review offers the repair of the
\* project and waits for the answer
conduct_project_review_offers_repair(project_path, st) ==
    Ret(Str(<<"Project review for ">> \o project_path \o <<" initiated. (Placeholder)">>),
        [st EXCEPT !.pending_action = [type |-> "resolve_basproject_issues",
                                       arg |-> project_path]])

\* Assistant.conduct_project_review(project_path)
conduct_project_review(project_path, st) ==
    Ret(Str(<<"Project review for ">> \o project_path \o <<" initiated. (Placeholder)">>), st)

_handle_project_requests(query_lower, query, context, st) ==
    IF \/ Contains(query_lower, K.review_project)
       \/ Contains(query_lower, K.analyze_code)
       \/ Contains(query_lower, K.project_structure)
    THEN IF context.project_path # <<>>
         THEN conduct_project_review(context.project_path, st)
         ELSE Ret(Str(T.need_path), st)
    ELSE Ret(NoneVal, st)

(***************************************************************************)
(* Pending-confirmation stage and the two actions it can run.  The file    *)
(* system is fs = [dirs, files], two sets of paths.                        *)
(***************************************************************************)
PathJoin(dir, name) == dir \o <<"/">> \o name

\* Path(p).parent
Parent(p) ==
    IF \A i \in 1..Len(p) : p[i] # "/"
    THEN <<".">>
    ELSE LET i == CHOOSE j \in 1..Len(p) : p[j] = "/" /\ \A k \in (j + 1)..Len(p) : p[k] # "/"
         IN  IF i = 1 THEN <<"/">> ELSE SubSeq(p, 1, i - 1)

Exists(tree, p) == p \in tree.dirs \/ p \in tree.files

F_basic_queries ==
    <<"b","a","s","i","c","_","q","u","e","r","i","e","s",".","j","s","o","n">>
F_knowledge_questions ==
    <<"k","n","o","w","l","e","d","g","e","_","q","u","e","s","t","i","o","n","s",".","j","s","o","n">>
F_your_ai_module ==
    <<"y","o","u","r","_","a","i","_","m","o","d","u","l","e",".","p","y">>

\* mutant of TestCommand: the command names the runner of the working directory
TestCommand_cwd(project_path) == K.python \o K.test_runner

\* command of the pending run_basproject_tests action: f"python {project_path / 'test_runner.py'}"
TestCommand(project_path) == K.python \o PathJoin(project_path, K.test_runner)

\* one iteration of the loop over json_files_to_move; acc = [st, msgs]
MoveJson(acc, project_path, json_file, env) ==
    LET test_cases_dir == PathJoin(project_path, K.test_cases)
        source_path == PathJoin(project_path, json_file)
        destination_path == PathJoin(test_cases_dir, json_file)
        files == acc.st.fs
    IN  IF Exists(files, source_path) /\ ~Exists(files, destination_path)
        THEN IF env.fs_ok
             THEN [st |-> Log([acc.st EXCEPT !.fs.files =
                                    (@ \ {source_path}) \cup {destination_path}],
                              "os.rename", source_path),
                   msgs |-> Append(acc.msgs, <<"Moved ">> \o json_file \o <<" to ">> \o test_cases_dir)]
             ELSE [st |-> Log(acc.st, "os.rename failed", source_path),
                   msgs |-> Append(acc.msgs, <<"Error moving ">> \o json_file)]
        ELSE IF ~Exists(files, source_path)
        THEN [st |-> acc.st,
              msgs |-> Append(acc.msgs, <<"Warning: ">> \o json_file \o <<" not found at source, skipping move.">>)]
        ELSE [st |-> acc.st,
              msgs |-> Append(acc.msgs, <<"Info: ">> \o json_file \o <<" already exists in ">>
                                        \o test_cases_dir \o <<", skipping move.">>)]

_resolve_basproject_issues(project_path, st, env) ==
    LET test_cases_dir == PathJoin(project_path, K.test_cases)
        need_dir == test_cases_dir \notin st.fs.dirs
        a0 == IF need_dir
              THEN [st |-> Log([st EXCEPT !.fs.dirs = @ \cup {test_cases_dir}],
                               "os.makedirs", test_cases_dir),
                    msgs |-> << <<"Created directory: ">> \o test_cases_dir >>]
              ELSE [st |-> st, msgs |-> <<>>]
        a1 == MoveJson(a0, project_path, F_basic_queries, env)
        a2 == MoveJson(a1, project_path, F_knowledge_questions, env)
        your_ai_module_path == PathJoin(project_path, F_your_ai_module)
        a3 == IF ~Exists(a2.st.fs, your_ai_module_path)
              THEN IF env.fs_ok
                   THEN [st |-> Log([a2.st EXCEPT !.fs.files = @ \cup {your_ai_module_path}],
                                    "open(w)", your_ai_module_path),
                         msgs |-> Append(a2.msgs, <<"Created placeholder ">> \o your_ai_module_path)]
                   ELSE [st |-> Log(a2.st, "open(w) failed", your_ai_module_path),
                         msgs |-> Append(a2.msgs, <<"Error creating ">> \o your_ai_module_path)]
              ELSE a2
        msgs == a3.msgs \o << <<"Basproject issues resolved. You can now run the tests.">>,
                              <<"Would you like me to run '">> \o TestCommand(project_path)
                                  \o <<"' for you?">> >>
    IN  IF need_dir /\ ~env.fs_ok
        THEN Ret(Str(<<"Error creating directory ">> \o test_cases_dir),
                 Log(st, "os.makedirs failed", test_cases_dir))
        ELSE Ret(Str(Join(msgs, <<"\n">>)),
                 [a3.st EXCEPT !.pending_action =
                      [type |-> "run_basproject_tests", arg |-> TestCommand(project_path)]])

_run_basproject_tests(command, st, env) ==
    LET parts == Split(command, " ")
    IN  IF Len(parts) < 2
        THEN Raise(st)    \* command.split(" ")[1]: IndexError, outside the try
        ELSE LET project_path == Parent(parts[2])
                 full_command == K.cd \o project_path \o <<" ">> \o K.and \o command
                 st1 == Log(st, "subprocess.run", full_command)
             IN  IF env.proc = "ok"
                 THEN Ret(Str(<<"Command output:", "\n", "STDOUT:", "\n", "STDERR:", "\n">>), st1)
                 ELSE IF env.proc = "fail"
                 THEN Ret(Str(<<"Error running command: ", "CalledProcessError">>), st1)
                 ELSE Ret(Str(<<"An unexpected error occurred while running the command: ">>), st1)


\* mutant of _handle_confirmation_requests: "no" runs the stored action as "yes" does
_handle_confirmation_requests_no_runs(query_lower, st, env) ==
    IF st.pending_action # NoAction /\ query_lower \in {K.yes, K.no}
    THEN IF st.pending_action.type = "resolve_basproject_issues"
         THEN _resolve_basproject_issues(st.pending_action.arg,
                                         [st EXCEPT !.pending_action = NoAction], env)
         ELSE _run_basproject_tests(st.pending_action.arg,
                                    [st EXCEPT !.pending_action = NoAction], env)
    ELSE Ret(NoneVal, st)

\* mutant of _handle_confirmation_requests: the slot is not cleared on "yes"
_handle_confirmation_requests_keep(query_lower, st, env) ==
    IF st.pending_action # NoAction /\ query_lower = K.yes
          /\ st.pending_action.type = "run_basproject_tests"
    THEN _run_basproject_tests(st.pending_action.arg, st, env)
    ELSE IF st.pending_action # NoAction /\ query_lower = K.no
    THEN Ret(Str(T.cancelled), [st EXCEPT !.pending_action = NoAction])
    ELSE Ret(NoneVal, st)

\* mutant of _handle_confirmation_requests: any other input abandons the pending action
_handle_confirmation_requests_abandon(query_lower, st, env) ==
    IF st.pending_action # NoAction
    THEN IF query_lower = K.yes /\ st.pending_action.type = "resolve_basproject_issues"
         THEN _resolve_basproject_issues(st.pending_action.arg,
                                         [st EXCEPT !.pending_action = NoAction], env)
         ELSE IF query_lower = K.yes /\ st.pending_action.type = "run_basproject_tests"
         THEN _run_basproject_tests(st.pending_action.arg,
                                    [st EXCEPT !.pending_action = NoAction], env)
         ELSE IF query_lower = K.no
         THEN Ret(Str(T.cancelled), [st EXCEPT !.pending_action = NoAction])
         ELSE Ret(NoneVal, [st EXCEPT !.pending_action = NoAction])
    ELSE Ret(NoneVal, st)

_handle_confirmation_requests(query_lower, st, env) ==
    IF st.pending_action # NoAction
    THEN IF query_lower = K.yes
         THEN LET action_type == st.pending_action.type
              IN  IF action_type = "resolve_basproject_issues"
                  THEN _resolve_basproject_issues(st.pending_action.arg,
                                                  [st EXCEPT !.pending_action = NoAction], env)
                  ELSE IF action_type = "run_basproject_tests"
                  THEN _run_basproject_tests(st.pending_action.arg,
                                             [st EXCEPT !.pending_action = NoAction], env)
                  ELSE Ret(NoneVal, st)
         ELSE IF query_lower = K.no
         THEN Ret(Str(T.cancelled), [st EXCEPT !.pending_action = NoAction])
         ELSE Ret(NoneVal, st)
    ELSE Ret(NoneVal, st)

(***************************************************************************)
(* Quran stage.  The knowledge base is a fixed small one: the chapters of  *)
(* KbChapters, each with the verses 1..KbVerses.                           *)
(***************************************************************************)
KbChapters == {1}
KbVerses == 2
KbSearchHits(keyword) == IF keyword = K.god THEN 6 ELSE 0

get_chapter_info(chapter_number) == chapter_number \in KbChapters
get_verse(chapter_number, verse_number) ==
    chapter_number \in KbChapters /\ verse_number \in 1..KbVerses


ChapterText(n) == <<"Chapter ">> \o IntStr(n) \o <<": surah_name (surah_name_ar)", "\n", "Type: ", "\n",
                    "Total Verses: ">> \o IntStr(KbVerses) \o <<"\n", "Description: ">>
VerseText(c, v) == <<"Chapter ">> \o IntStr(c) \o <<":">> \o IntStr(v) \o <<"\n", "Arabic: ", "\n",
                     "Translation: ", "\n", "Transliteration: ">>

\* parts[i] as an int, when position i exists and int() accepts it
IntAt(parts, i) == i >= 1 /\ i <= Len(parts) /\ IsInt(parts[i])

\* the verses passed to play_verses_audio, as "chapter:verse" strings
VerseRef(c, v) == IntStr(c) \o <<":">> \o IntStr(v)
RECURSIVE RangeRefs(_, _, _)
RangeRefs(c, lo, hi) ==
    IF lo > hi THEN <<>> ELSE VerseRef(c, lo) \o <<" ">> \o RangeRefs(c, lo + 1, hi)
RECURSIVE ListRefs(_, _)
ListRefs(c, nums) ==
    IF nums = <<>> THEN <<>> ELSE VerseRef(c, IntVal(nums[1])) \o <<" ">> \o ListRefs(c, Tail(nums))

QuranChapter(query_lower, st) ==
    LET parts == SplitWords(query_lower)
        idx == IndexOf(parts, K.chapter)
    IN  IF idx = 0 \/ ~IntAt(parts, idx + 1)
        THEN Ret(Str(T.chapter_hint), st)
        ELSE LET chapter_number == IntVal(parts[idx + 1])
             IN  IF get_chapter_info(chapter_number)
                 THEN Ret(Str(ChapterText(chapter_number)), st)
                 ELSE Ret(Str(<<"Chapter ">> \o IntStr(chapter_number) \o <<" not found.">>), st)

QuranVerse(query_lower, st) ==
    LET parts == SplitWords(query_lower)
        idx == IndexOf(parts, K.verse)
    IN  IF idx = 0 \/ ~IntAt(parts, idx + 1) \/ ~IntAt(parts, idx + 2)
        THEN Ret(Str(T.verse_hint), st)
        ELSE LET chapter_number == IntVal(parts[idx + 1])
                 verse_number == IntVal(parts[idx + 2])
             IN  IF get_verse(chapter_number, verse_number)
                 THEN Ret(Str(VerseText(chapter_number, verse_number)), st)
                 ELSE Ret(Str(<<"Verse ">> \o IntStr(chapter_number) \o <<":">>
                              \o IntStr(verse_number) \o <<" not found.">>), st)

QuranSearch(query_lower, st) ==
    LET i == CHOOSE j \in 1..Len(query_lower) :
                 /\ SubSeq(query_lower, j, j + Len(K.quran_search) - 1) = K.quran_search
                 /\ \A k \in 1..(j - 1) : SubSeq(query_lower, k, k + Len(K.quran_search) - 1) # K.quran_search
        keyword == Strip(SubSeq(query_lower, i + Len(K.quran_search), Len(query_lower)))
        hits == KbSearchHits(keyword)
    IN  IF keyword = <<>>
        THEN Ret(Str(T.search_hint), st)
        ELSE IF hits = 0
        THEN Ret(Str(<<"No results found for '">> \o keyword \o <<"'.">>), st)
        ELSE Ret(Str(<<"Found ">> \o IntStr(hits) \o <<" results for '">> \o keyword \o <<"':", "\n">>
                     \o [k \in 1..(IF hits > 5 THEN 5 ELSE hits) |-> "  result\n"]
                     \o (IF hits > 5
                         THEN <<"  ...and more. Please refine your search for more specific results.\n">>
                         ELSE <<>>)), st)

\* the try block of the recitation branch; ret = NoneVal with raised = FALSE
\* when the block ends without returning
QuranRecite(query_lower, st) ==
    LET parts == SplitWords(query_lower)
        play_audio == IndexOf(parts, K.play) # 0
        chapter_index == IndexOf(parts, K.chapter)
        recite_index == IndexOf(parts, K.recite)
    IN  IF chapter_index # 0
        THEN IF ~IntAt(parts, chapter_index + 1)
             THEN Ret(Str(T.recite_hint), st)
             ELSE LET chapter_number == IntVal(parts[chapter_index + 1])
                  IN  IF get_chapter_info(chapter_number)
                      THEN IF play_audio
                           THEN Ret(Str(ChapterText(chapter_number)
                                        \o <<"\n", "Playing audio for this chapter.">>),
                                    Log(st, "play_verses_audio", RangeRefs(chapter_number, 1, KbVerses)))
                           ELSE Ret(Str(ChapterText(chapter_number)), st)
                      ELSE Ret(Str(<<"Chapter ">> \o IntStr(chapter_number) \o <<" not found.">>), st)
        ELSE IF recite_index # 0 /\ (Contains(query_lower, <<"-">>) \/ Contains(query_lower, <<",">>))
        THEN IF ~IntAt(parts, recite_index + 1) \/ recite_index + 2 > Len(parts)
             THEN Ret(Str(T.recite_hint), st)
             ELSE LET chapter_number == IntVal(parts[recite_index + 1])
                      selector == parts[recite_index + 2]
                  IN  IF Contains(query_lower, <<"-">>)
                      THEN LET bounds == Split(selector, "-")
                           IN  IF Len(bounds) # 2 \/ ~IsInt(bounds[1]) \/ ~IsInt(bounds[2])
                               THEN Ret(Str(T.recite_hint), st)
                               ELSE LET text == <<"Reciting verses ">> \o IntStr(IntVal(bounds[1])) \o <<"-">>
                                                \o IntStr(IntVal(bounds[2]))
                                                \o <<" of Chapter ">> \o IntStr(chapter_number) \o <<".">>
                                    IN  IF play_audio
                                        THEN Ret(Str(text \o <<"\n", "Playing audio for selected verses.">>),
                                                 Log(st, "play_verses_audio",
                                                     RangeRefs(chapter_number, IntVal(bounds[1]), IntVal(bounds[2]))))
                                        ELSE Ret(Str(text), st)
                      ELSE LET nums == Split(selector, ",")
                           IN  IF \E k \in 1..Len(nums) : ~IsInt(nums[k])
                               THEN Ret(Str(T.recite_hint), st)
                               ELSE LET text == <<"Reciting verses ">>
                                                \o Join([k \in 1..Len(nums) |-> IntStr(IntVal(nums[k]))], <<", ">>)
                                                \o <<" of Chapter ">> \o IntStr(chapter_number) \o <<".">>
                                    IN  IF play_audio
                                        THEN Ret(Str(text \o <<"\n", "Playing audio for selected verses.">>),
                                                 Log(st, "play_verses_audio", ListRefs(chapter_number, nums)))
                                        ELSE Ret(Str(text), st)
        ELSE IF recite_index # 0
        THEN IF ~IntAt(parts, recite_index + 1) \/ ~IntAt(parts, recite_index + 2)
             THEN Ret(Str(T.recite_hint), st)
             ELSE LET chapter_number == IntVal(parts[recite_index + 1])
                      verse_number == IntVal(parts[recite_index + 2])
                  IN  IF get_verse(chapter_number, verse_number)
                      THEN IF play_audio
                           THEN Ret(Str(VerseText(chapter_number, verse_number)
                                        \o <<"\n", "Playing audio for this verse.">>),
                                    Log(st, "play_verse_audio", VerseRef(chapter_number, verse_number)))
                           ELSE Ret(Str(VerseText(chapter_number, verse_number)), st)
                      ELSE Ret(Str(<<"Verse ">> \o IntStr(chapter_number) \o <<":">>
                                   \o IntStr(verse_number) \o <<" not found.">>), st)
        ELSE Ret(NoneVal, st)

_handle_quran_requests(query_lower, st) ==
    IF ~ContainsAny(query_lower, {K.quran, K.surah, K.verse, K.recite, K.play_quran})
    THEN Ret(NoneVal, st)
    ELSE IF ~quran
    THEN Ret(Str(T.quran_off), st)
    ELSE IF Contains(query_lower, K.quran_chapter)
    THEN QuranChapter(query_lower, st)
    ELSE IF Contains(query_lower, K.quran_verse)
    THEN QuranVerse(query_lower, st)
    ELSE IF Contains(query_lower, K.quran_search)
    THEN QuranSearch(query_lower, st)
    ELSE LET recite == IF Contains(query_lower, K.quran_recite) \/ Contains(query_lower, K.play_quran)
                       THEN QuranRecite(query_lower, st)
                       ELSE Ret(NoneVal, st)
         IN  IF recite.ret # NoneVal
             THEN recite
             ELSE IF Contains(query_lower, K.quran_pause)
             THEN Ret(Str(<<"pause_audio()">>), Log(st, "pause_audio", <<>>))
             ELSE IF Contains(query_lower, K.quran_resume)
             THEN Ret(Str(<<"resume_audio()">>), Log(st, "resume_audio", <<>>))
             ELSE IF Contains(query_lower, K.quran_stop)
             THEN Ret(Str(<<"stop_audio()">>), Log(st, "stop_audio", <<>>))
             ELSE Ret(NoneVal, st)

(***************************************************************************)
(* Stock stage, agent delegation and the fallbacks.                        *)
(***************************************************************************)

_handle_stock_requests(query_lower, query, context, st, env) ==
    IF ~HasPlugin("StockMonitorPlugin")
    THEN Ret(Str(T.no_stock), st)
    ELSE IF \/ Contains(query_lower, K.price_of)
            \/ Contains(query_lower, K.overview_of)
            \/ ContainsAny(query_lower, {K.stock, K.monitor, K.finance, K.market})
    THEN PluginProcess("StockMonitorPlugin", env.stock_out, st)
    ELSE Ret(NoneVal, st)


\* agent.can_handle_query(query): an agent handles the queries that hold one
\* of its keywords; CodeAgent looks for them in query.lower(), the DummyAgent
\* in the query as given
can_handle_query(agent, query) ==
    ContainsAny(IF agent.inst.lowers THEN Lower(query) ELSE query, agent.inst.keywords)

\* await agent.process_task(task, context) and the formatting of its result
AgentTask(agent, task_type, default, st, env) ==
    LET st1 == Log(st, "process_task", <<agent.name, task_type>>)
    IN  IF env.agent_out = "raise"
        THEN Raise(st1)
        ELSE IF env.agent_out = "result"
        THEN Ret(Str(<<"Code Agent: ", "result of ", task_type>>), st1)
        ELSE Ret(Str(<<"Code Agent: ", default>>), st1)

\* the loop over get_all_agents().items(), from position i on
RECURSIVE AgentLoop(_, _, _, _, _, _)
AgentLoop(i, query_lower, query, context, st, env) ==
    IF i > Len(agents)
    THEN Ret(NoneVal, st)
    ELSE LET agent == agents[i]
             st1 == Log(st, "can_handle_query", <<agent.name>>)
         IN  IF can_handle_query(agent, query)
             THEN IF Contains(query_lower, K.analyze)
                  THEN IF context.code # <<>>
                       THEN AgentTask(agent, "analyze_code", "Analysis failed.", st1, env)
                       ELSE Ret(Str(T.need_code), st1)
                  ELSE IF Contains(query_lower, K.generate)
                  THEN IF Strip(Remove(query, K.generate_code)) # <<>>
                       THEN AgentTask(agent, "generate_code", "Code generation failed.", st1, env)
                       ELSE Ret(Str(T.need_prompt), st1)
                  ELSE AgentLoop(i + 1, query_lower, query, context, st1, env)
             ELSE AgentLoop(i + 1, query_lower, query, context, st1, env)

\* `if not self.assistant.agent_manager` never holds: Assistant.__init__ always
\* installs an AgentManager, and an AgentManager is truthy
_handle_agent_requests(query_lower, query, context, st, env) ==
    AgentLoop(1, query_lower, query, context, st, env)

\* the (user, assistant) pairs of the conversational plugin's chat_history
RECURSIVE PairUp(_, _, _)
PairUp(msgs, user_message, acc) ==
    IF msgs = <<>>
    THEN acc
    ELSE LET msg == msgs[1]
         IN  IF msg.role = "user"
             THEN PairUp(Tail(msgs), <<msg.content>>, acc)
             ELSE IF msg.role = "assistant" /\ user_message # <<>>
             THEN PairUp(Tail(msgs), <<>>, Append(acc, <<user_message[1], msg.content>>))
             ELSE PairUp(Tail(msgs), user_message, acc)

\* mutant of FormattedChatHistory: the pairs are built from the whole history
FormattedChatHistory_whole(h) == PairUp(h, <<>>, <<>>)

\* formatted_chat_history: the pairs built from memory.get_history(num_messages=5)
FormattedChatHistory(h) == PairUp(HistorySlice(h, 5), <<>>, <<>>)

\* the chat_history of the context handed to the plugin, written out:
\* (user|assistant) for each pair
RECURSIVE ChatHistoryRepr(_)
ChatHistoryRepr(pairs) ==
    IF pairs = <<>>
    THEN <<>>
    ELSE <<"(">> \o pairs[1][1] \o <<"|">> \o pairs[1][2] \o <<")">>
         \o ChatHistoryRepr(Tail(pairs))

T_fallback(query) ==
    <<"I am Osmanli AI. I'm still learning and improving my understanding. I received your query: '">>
        \o query \o <<"'. Can you rephrase or ask for something specific?">>

(***************************************************************************)
(* route for a query without ";" (dispatcher.py lines 46-125).  The result *)
(* carries the trace of the stages consulted: for each its name and what   *)
(* it did: "declined" (the not-applicable sentinel), "returned" or         *)
(* "raised".                                                               *)
(***************************************************************************)
Consulted(stage, r) ==
    [stage |-> stage,
     out |-> IF r.raised THEN "raised" ELSE IF r.ret = NoneVal THEN "declined" ELSE "returned"]

\* a stage whose plugin is registered answers, whatever the plugin returns
Answered(stage, r) ==
    [stage |-> stage, out |-> IF r.raised THEN "raised" ELSE "returned"]

Final(r, trace) == [ret |-> r.ret, raised |-> r.raised, st |-> r.st, trace |-> trace]

RouteFallbacks(query, context, st, env, trace) ==
    IF HasPlugin("HuggingFaceConversationalPlugin")
    THEN LET chat == Log(st, "chat_history", ChatHistoryRepr(FormattedChatHistory(st.history)))
             r == PluginProcess("HuggingFaceConversationalPlugin", env.plugin_out, chat)
         IN  Final(r, Append(trace, Answered("conversational", r)))
    ELSE LET t8 == Append(trace, [stage |-> "conversational", out |-> "declined"])
         IN
    IF HasPlugin("WebSearchPlugin")
    THEN LET r == PluginProcess("WebSearchPlugin", env.plugin_out, st)
         IN  Final(r, Append(t8, Answered("web_search", r)))
    ELSE LET t9 == Append(t8, [stage |-> "web_search", out |-> "declined"])
         IN
    IF HasPlugin("GeneralLLM") /\ "general_conversation" \in get_plugin("GeneralLLM").capabilities
    THEN LET r == PluginProcess("GeneralLLM", env.plugin_out, st)
         IN  Final(r, Append(t9, Answered("general_llm", r)))
    ELSE Final(Ret(Str(T_fallback(query)), st),
               Append(t9, [stage |-> "general_llm", out |-> "declined"])
                   \o <<[stage |-> "fallback", out |-> "returned"]>>)

\* the element of a singleton: Only({ e(x) : x \in {v} }) is e(v), with v computed once
Only(S) == CHOOSE x \in S : TRUE

\* The stages of route, from the last handler to the first: the handler's
\* response r is returned unless it is None (`if response is not None`), and
\* the next stage runs in the state the handler left.
FromAgent(query_lower, query, context, st, env, trace) ==
    Only({ Only({ IF r.raised \/ r.ret # NoneVal
                  THEN Final(r, t)
                  ELSE RouteFallbacks(query, context, r.st, env, t) :
                  t \in {Append(trace, Consulted("agent", r))} }) :
            r \in {_handle_agent_requests(query_lower, query, context, st, env)} })

\* mutant of FromStock: an empty response is taken for "not applicable" (`if response:`)
FromStock_falsy(query_lower, query, context, st, env, trace) ==
    Only({ Only({ IF r.raised \/ Truthy(r.ret)
                  THEN Final(r, t)
                  ELSE FromAgent(query_lower, query, context, r.st, env, t) :
                  t \in {Append(trace, Consulted("stock", r))} }) :
            r \in {_handle_stock_requests(query_lower, query, context, st, env)} })

FromStock(query_lower, query, context, st, env, trace) ==
    Only({ Only({ IF r.raised \/ r.ret # NoneVal
                  THEN Final(r, t)
                  ELSE FromAgent(query_lower, query, context, r.st, env, t) :
                  t \in {Append(trace, Consulted("stock", r))} }) :
            r \in {_handle_stock_requests(query_lower, query, context, st, env)} })

FromQuran(query_lower, query, context, st, env, trace) ==
    Only({ Only({ IF r.raised \/ r.ret # NoneVal
                  THEN Final(r, t)
                  ELSE FromStock(query_lower, query, context, r.st, env, t) :
                  t \in {Append(trace, Consulted("quran", r))} }) :
            r \in {_handle_quran_requests(query_lower, st)} })

FromConfirmation(query_lower, query, context, st, env, trace) ==
    Only({ Only({ IF r.raised \/ r.ret # NoneVal
                  THEN Final(r, t)
                  ELSE FromQuran(query_lower, query, context, r.st, env, t) :
                  t \in {Append(trace, Consulted("confirmation", r))} }) :
            r \in {_handle_confirmation_requests(query_lower, st, env)} })

FromProject(query_lower, query, context, st, env, trace) ==
    Only({ Only({ IF r.raised \/ r.ret # NoneVal
                  THEN Final(r, t)
                  ELSE FromConfirmation(query_lower, query, context, r.st, env, t) :
                  t \in {Append(trace, Consulted("project", r))} }) :
            r \in {_handle_project_requests(query_lower, query, context, st)} })

FromNeovim(query_lower, query, context, st, env, trace) ==
    Only({ Only({ IF r.raised \/ r.ret # NoneVal
                  THEN Final(r, t)
                  ELSE FromProject(query_lower, query, context, r.st, env, t) :
                  t \in {Append(trace, Consulted("neovim", r))} }) :
            r \in {_handle_neovim_requests(query_lower, query, context, st, env)} })

FromInternal(query_lower, query, context, st, env, trace) ==
    Only({ Only({ IF r.raised \/ r.ret # NoneVal
                  THEN Final(r, t)
                  ELSE FromNeovim(query_lower, query, context, r.st, env, t) :
                  t \in {Append(trace, Consulted("internal", r))} }) :
            r \in {_handle_internal_commands(query_lower, st)} })

RouteStages(query, context, st, env) ==
    FromInternal(Lower(query), query, context, st, env, <<>>)

(***************************************************************************)
(* route (dispatcher.py lines 29-125): a query containing ";" is split and *)
(* each non-empty stripped link is routed by a recursive call.  The result *)
(* also carries, for a split query, one record per recursive call.         *)
(***************************************************************************)
LinkRecord(link, before, r) ==
    [query |-> link, before |-> before, ret |-> r.ret, raised |-> r.raised]

\* mutant of JoinResponses: the responses are joined newest first
JoinResponses_reversed(responses, st, links) ==
    [ret |-> Str(Join([i \in 1..Len(responses) |-> responses[Len(responses) + 1 - i].value], <<"\n">>)),
     raised |-> FALSE, st |-> st, trace |-> <<>>, links |-> links]

\* "\n".join(responses): a response that is not a str raises TypeError
JoinResponses(responses, st, links) ==
    IF \E i \in 1..Len(responses) : responses[i].kind # "str"
    THEN [ret |-> NoneVal, raised |-> TRUE, st |-> st, trace |-> <<>>, links |-> links]
    ELSE [ret |-> Str(Join([i \in 1..Len(responses) |-> responses[i].value], <<"\n">>)),
          raised |-> FALSE, st |-> st, trace |-> <<>>, links |-> links]

RECURSIVE Route(_, _, _, _)
RECURSIVE RouteLinks(_, _, _, _, _, _)

\* the loop `for link in links`, from the remaining links on
RouteLinks(links, context, st, env, responses, done) ==
    IF links = <<>>
    THEN JoinResponses(responses, st, done)
    ELSE LET link == Strip(links[1])
         IN  IF link # <<>>
             THEN LET r == Route(link, context, st, env)
                      done1 == Append(done, LinkRecord(link, st, r))
                  IN  IF r.raised
                      THEN [ret |-> NoneVal, raised |-> TRUE, st |-> r.st,
                            trace |-> <<>>, links |-> done1]
                      ELSE RouteLinks(Tail(links), context, r.st, env,
                                      Append(responses, r.ret), done1)
             ELSE RouteLinks(Tail(links), context, st, env, responses, done)

Route(query, context, st, env) ==
    IF Contains(query, <<";">>)
    THEN RouteLinks(Split(query, ";"), context, st, env, <<>>, <<>>)
    ELSE RouteStages(query, context, st, env) @@ [links |-> <<>>]

(***************************************************************************)
(* The assistant under routing: configurations, inputs and collaborators.  *)
(***************************************************************************)
Plugin(name, capabilities) == [name |-> name, inst |-> [capabilities |-> capabilities]]
P_stock == Plugin("StockMonitorPlugin", {"stock"})
P_conv == Plugin("HuggingFaceConversationalPlugin", {"conversation"})
P_web == Plugin("WebSearchPlugin", {"web_search"})
P_llm == Plugin("GeneralLLM", {"general_conversation"})
P_llm_nocap == Plugin("GeneralLLM", {"text_generation"})
P_copilot == Plugin("CopilotPlugin", {"code"})

Agent(name, keywords, lowers) ==
    [name |-> name, inst |-> [keywords |-> keywords, lowers |-> lowers]]
A_code == Agent("CodeAgent", {K.code, K.analyze, K.generate, K.refactor, K.debug}, TRUE)
A_dummy == Agent("DummyAgent", {K.dummy}, FALSE)
A_other == Agent("OtherAgent", {K.dummy}, FALSE)

\* The assistants routed on: registered plugins, registered agents, Quran loaded
Assistants ==
    { [plugins |-> <<>>, agents |-> <<A_dummy>>, quran |-> FALSE],
      [plugins |-> <<P_stock>>, agents |-> <<A_dummy, A_code, A_other>>, quran |-> TRUE],
      [plugins |-> <<P_stock, P_llm_nocap>>, agents |-> <<>>, quran |-> FALSE],
      [plugins |-> <<P_stock, P_web, P_llm>>, agents |-> <<A_code>>, quran |-> TRUE],
      [plugins |-> <<P_copilot, P_stock, P_conv, P_web, P_llm>>, agents |-> <<A_dummy>>, quran |-> TRUE] }

Path_a == <<"p","a">>
Path_b == <<"/","t","m","p","/","b">>
Code_hello == <<"p","r","i","n","t","(","'","h","e","l","l","o","'",")">>

EmptyContext == [project_path |-> <<>>, code |-> <<>>, text_to_insert |-> <<>>, nvim_command |-> <<>>]
FullContext == [project_path |-> Path_a, code |-> Code_hello,
                text_to_insert |-> <<"x">>, nvim_command |-> <<":","w">>]

\* The calls made on route: each query with an empty context, and the queries
\* that read the context with a full one as well
Inputs ==
    { [query |-> q, context |-> EmptyContext] :
        q \in { Q.hello, Q.multilink, Q.yes, Q.no, Q.no_semi, Q.yes_no, Q.read_buffer,
                Q.insert_text, Q.code_copilot, Q.editor, Q.review_project, Q.analyze_code,
                Q.quran_chapter_1, Q.quran_chapter_x, Q.price_of, Q.analyze_dummy,
                Q.analyze_dummy2, Q.generate_dummy, Q.tell_me_more, Q.semi, Q.clear_chat,
                Q.list_plugins, Q.more_then_yes, Q.maybe, Q.dummy_task,
                Q.clear_chat_history, Q.what_time, Q.quran_verse_2,
                Q.quran_recite_range3, Q.quran_recite_letters, Q.play_recite_range3,
                Q.play_quran } }
    \cup
    { [query |-> q, context |-> FullContext] :
        q \in { Q.insert_text, Q.review_project, Q.analyze_dummy, Q.analyze_dummy2,
                Q.analyze_Dummy } }

\* The values assigned to Assistant.pending_action by the assistant's owner
PendingActions ==
    { [type |-> "resolve_basproject_issues", arg |-> Path_a],
      [type |-> "run_basproject_tests", arg |-> TestCommand(Path_b)],
      [type |-> "run_tests", arg |-> TestCommand(Path_a)] }

\* The collaborators behave during one call: by default all succeed
DefaultEnv ==
    [connect |-> "true",
     stock_out |-> Str(<<"stock plugin response">>),
     plugin_out |-> Str(<<"plugin response">>),
     agent_out |-> "result",
     proc |-> "ok",
     fs_ok |-> TRUE]
RaiseOut == [kind |-> "raise", value |-> <<>>]
Envs ==
    { DefaultEnv,
      [DefaultEnv EXCEPT !.connect = "false"],
      [DefaultEnv EXCEPT !.connect = "raise"],
      [DefaultEnv EXCEPT !.stock_out = NoneVal],
      [DefaultEnv EXCEPT !.stock_out = Str(<<>>)],
      [DefaultEnv EXCEPT !.stock_out = RaiseOut],
      [DefaultEnv EXCEPT !.plugin_out = Str(<<>>)],
      [DefaultEnv EXCEPT !.plugin_out = NoneVal],
      [DefaultEnv EXCEPT !.plugin_out = RaiseOut],
      [DefaultEnv EXCEPT !.stock_out = NoneVal, !.plugin_out = NoneVal],
      [DefaultEnv EXCEPT !.agent_out = "no_result"],
      [DefaultEnv EXCEPT !.agent_out = "raise"],
      [DefaultEnv EXCEPT !.proc = "fail"],
      [DefaultEnv EXCEPT !.proc = "error"],
      [DefaultEnv EXCEPT !.fs_ok = FALSE] }

FsInit ==
    [dirs |-> {PathJoin(Path_b, K.test_cases)},
     files |-> {PathJoin(Path_a, F_basic_queries),
                PathJoin(Path_b, F_basic_queries),
                PathJoin(PathJoin(Path_b, K.test_cases), F_basic_queries),
                PathJoin(Path_b, F_your_ai_module)}]

SampleHistory ==
    << [role |-> "user", content |-> S_Hello],
       [role |-> "assistant", content |-> S_Hi_there] >>

NoRequest == [query |-> <<>>, context |-> EmptyContext, active |-> FALSE]
NoCall ==
    [query |-> <<>>, context |-> EmptyContext, env |-> DefaultEnv, called |-> FALSE,
     before |-> [history |-> <<>>, pending_action |-> NoAction,
                 fs |-> [dirs |-> {}, files |-> {}], effects |-> <<>>],
     ret |-> NoneVal, raised |-> FALSE, trace |-> <<>>, links |-> <<>>]

\* no process_query call has ended
NoReturn ==
    [called |-> FALSE, turn |-> 0, query |-> <<>>, flags |-> {}, omitted |-> FALSE,
     raised |-> FALSE, response |-> NoneVal]

\* the assistant's mutable state, as the handlers see it
CurrentState ==
    [history |-> history, pending_action |-> pending_action, fs |-> fs, effects |-> <<>>]

(***************************************************************************)
(* Plugin and agent registries (plugin_manager_util.py, agent_manager.py). *)
(*                                                                         *)
(* A candidate file of a scanned directory is a unit: its file name and    *)
(* the outcome of each step that loading takes it through.  An outcome     *)
(* "raises" is the raise of an Exception.  A load is folded over the       *)
(* files in the order of the scan, on acc = [registry, log, executed,      *)
(* raised, error]: the registry, the records logged, the files whose       *)
(* module was executed and the exception that left the load.               *)
(***************************************************************************)
F_init_py == <<"_","_","i","n","i","t","_","_",".","p","y">>
F_base_py == <<"b","a","s","e",".","p","y">>

Unit(file, name) ==
    [file |-> file,
     import |-> "ok",            \* spec.loader.exec_module(module)
     class |-> TRUE,             \* the module holds a concrete subclass of the base class
     construct |-> "ok",         \* cls(self.config)
     has_initialize |-> TRUE,    \* hasattr(plugin, "initialize")
     initialize |-> "ok",        \* plugin.initialize()
     set_status |-> "absent",    \* plugin.status = ...: no such step, "ok", or "raises"
     metadata |-> "ok",          \* plugin.get_metadata()
     name |-> name,              \* plugin.get_metadata().name
     shutdown |-> "ok"]          \* await agent.shutdown()

\* The files a scanned directory may hold
Units ==
    { Unit(<<"a",".","p","y">>, "A"),
      [Unit(<<"b",".","p","y">>, "B") EXCEPT !.set_status = "ok"],
      Unit(<<"c",".","p","y">>, "A"),
      [Unit(<<"d",".","p","y">>, "D") EXCEPT !.import = "raises"],
      [Unit(<<"e",".","p","y">>, "E") EXCEPT !.class = FALSE],
      [Unit(<<"f",".","p","y">>, "F") EXCEPT !.construct = "raises"],
      [Unit(<<"g",".","p","y">>, "G") EXCEPT !.initialize = "raises", !.set_status = "ok"],
      [Unit(<<"h",".","p","y">>, "H") EXCEPT !.metadata = "raises"],
      [Unit(<<"i",".","p","y">>, "I") EXCEPT !.set_status = "raises"],
      [Unit(<<"j",".","p","y">>, "J") EXCEPT !.has_initialize = FALSE],
      [Unit(<<"k",".","p","y">>, "K") EXCEPT !.shutdown = "raises"],
      Unit(<<"_","x",".","p","y">>, "X"),
      Unit(F_base_py, "Base") }

\* The directories scanned: a missing one, and each listing of at most
\* MaxFiles distinct files in the order the glob yields them
Scans ==
    { [exists |-> FALSE, files |-> <<>>] }
    \cup { [exists |-> TRUE, files |-> f] :
             f \in { g \in UNION { [1..n -> Units] : n \in 0..MaxFiles } :
                       \A i, j \in DOMAIN g : i # j => g[i] # g[j] } }

NoScan == [exists |-> FALSE, files |-> <<>>]
NotLoaded ==
    [called |-> FALSE, manager |-> "none", raised |-> FALSE, error |-> "none",
     log |-> <<>>, executed |-> <<>>, before |-> <<>>]

\* str.startswith(prefix)
StartsWith(s, prefix) == Len(s) >= Len(prefix) /\ SubSeq(s, 1, Len(prefix)) = prefix

\* logger.<level>(...) about a file
Logged(acc, level, event, about) ==
    [acc EXCEPT !.log = Append(@, [level |-> level, event |-> event, about |-> about])]

\* mutant of DictSet: a name already bound keeps its instance
DictSet_keep_first(d, name, inst) ==
    IF \E i \in 1..Len(d) : d[i].name = name
    THEN d
    ELSE Append(d, [name |-> name, inst |-> inst])

\* registry[name] = inst on a dict kept in insertion order
DictSet(d, name, inst) ==
    IF \E i \in 1..Len(d) : d[i].name = name
    THEN [i \in 1..Len(d) |-> IF d[i].name = name THEN [name |-> name, inst |-> inst] ELSE d[i]]
    ELSE Append(d, [name |-> name, inst |-> inst])

\* the object registered for a unit
Instance(unit, status) ==
    [file |-> unit.file, status |-> status, shutdown |-> unit.shutdown]

\* _load_single_plugin and _load_single_agent: "raises", "none" or "instance"
LoadSingle(unit) ==
    IF unit.import = "raises" THEN "raises"
    ELSE IF ~unit.class THEN "none"
    ELSE IF unit.construct = "raises" THEN "raises"
    ELSE "instance"

\* PluginManager._handle_initialization_error: the assignment of
\* ComponentStatus.ERROR raises where the assignment of RUNNING does
_handle_initialization_error(unit, acc) ==
    IF unit.set_status = "raises"
    THEN [acc EXCEPT !.raised = TRUE, !.error = "AttributeError"]
    ELSE Logged(acc, "error", "Initialization failed", unit.file)

\* mutant of PluginManager_initialize_and_register: the plugin is registered
\* before it is initialized
PluginManager_initialize_and_register_eager(unit, acc) ==
    IF unit.metadata = "raises"
    THEN _handle_initialization_error(unit, acc)
    ELSE IF unit.initialize = "raises" \/ unit.set_status = "raises"
    THEN _handle_initialization_error(unit,
             [acc EXCEPT !.registry = DictSet(@, unit.name, Instance(unit, "CREATED"))])
    ELSE Logged([acc EXCEPT !.registry = DictSet(@, unit.name, Instance(unit, "RUNNING"))],
                "info", "Loaded plugin", unit.file)

\* PluginManager._initialize_and_register
PluginManager_initialize_and_register(unit, acc) ==
    IF ~unit.has_initialize
    THEN Logged(acc, "error", "does not have", unit.file)
    ELSE IF unit.initialize = "raises" \/ unit.set_status = "raises" \/ unit.metadata = "raises"
    THEN _handle_initialization_error(unit, acc)
    ELSE Logged([acc EXCEPT !.registry =
                     DictSet(@, unit.name,
                             Instance(unit, IF unit.set_status = "ok" THEN "RUNNING" ELSE "CREATED"))],
                "info", "Loaded plugin", unit.file)

\* the file filter of load_plugins
PluginFileSkipped(file) ==
    \/ StartsWith(file, <<"_">>) \/ StartsWith(file, <<".">>)
    \/ file = F_init_py
    \/ file = F_base_py

\* one iteration of the loop of load_plugins: whatever Exception leaves the
\* try block is logged, and the scan goes on
PluginFile(unit, acc) ==
    IF PluginFileSkipped(unit.file)
    THEN Logged(acc, "debug", "Skipping", unit.file)
    ELSE Only({ Only({ IF plugin = "raises"
                       THEN Logged(acc1, "error", "Plugin loading failed", unit.file)
                       ELSE IF plugin = "none"
                       THEN Logged(acc1, "warning", "No valid plugin class", unit.file)
                       ELSE Only({ IF r.raised
                                   THEN Logged([r EXCEPT !.raised = FALSE, !.error = "none"],
                                               "error", "Plugin loading failed", unit.file)
                                   ELSE r :
                                   r \in {PluginManager_initialize_and_register(unit, acc1)} }) :
                       plugin \in {LoadSingle(unit)} }) :
                acc1 \in {[acc EXCEPT !.executed = Append(@, unit.file)]} })

\* the loop of load_plugins over the files that remain
RECURSIVE PluginFiles(_, _)
PluginFiles(files, acc) ==
    IF files = <<>> \/ acc.raised
    THEN acc
    ELSE PluginFiles(Tail(files), PluginFile(files[1], acc))

\* PluginManager.load_plugins
LoadPlugins(dir, registry) ==
    Only({ IF ~dir.exists
           THEN Logged(acc, "warning", "Plugins directory missing", <<>>)
           ELSE PluginFiles(dir.files, acc) :
           acc \in {[registry |-> registry, log |-> <<>>, executed |-> <<>>,
                     raised |-> FALSE, error |-> "none"]} })

\* no shutdown() has been called
NotShut ==
    [called |-> FALSE, manager |-> "none", raised |-> FALSE, error |-> "none",
     attempted |-> <<>>, log |-> <<>>, before |-> <<>>]

\* the loop of AgentManager.shutdown over the items of self.agents that
\* remain: the hook of each agent is awaited in turn, and the first failure
\* is logged and raised as AgentError, which ends the loop
RECURSIVE AgentShutdowns(_, _)
AgentShutdowns(items, acc) ==
    IF items = <<>> \/ acc.raised
    THEN acc
    ELSE AgentShutdowns(Tail(items),
             Only({ IF items[1].inst.shutdown = "raises"
                    THEN [acc1 EXCEPT !.raised = TRUE, !.error = "AgentError",
                                      !.log = Append(@, [level |-> "error",
                                                         event |-> "Error shutting down agent",
                                                         about |-> items[1].name])]
                    ELSE [acc1 EXCEPT !.log = Append(@, [level |-> "info",
                                                         event |-> "shut down",
                                                         about |-> items[1].name])] :
                    acc1 \in {[acc EXCEPT !.attempted = Append(@, items[1].name)]} }))

\* mutant of AgentManager_shutdown: the agents shut down are deregistered
AgentManager_shutdown_deregisters(registry) ==
    [AgentShutdowns(registry,
                    [registry |-> registry, attempted |-> <<>>, log |-> <<>>,
                     raised |-> FALSE, error |-> "none"])
        EXCEPT !.registry = <<>>]

\* AgentManager.shutdown
AgentManager_shutdown(registry) ==
    AgentShutdowns(registry,
                   [registry |-> registry, attempted |-> <<>>, log |-> <<>>,
                    raised |-> FALSE, error |-> "none"])

\* PluginManager.shutdown: the body is pass
PluginManager_shutdown(registry) ==
    [registry |-> registry, attempted |-> <<>>, log |-> <<>>,
     raised |-> FALSE, error |-> "none"]

\* AgentManager._initialize_and_register: the handler's message reads
\* get_metadata().name before it logs
AgentManager_initialize_and_register(unit, acc) ==
    IF unit.metadata = "raises"
    THEN [acc EXCEPT !.raised = TRUE, !.error = "Exception"]
    ELSE IF unit.initialize = "raises"
    THEN [Logged(acc, "error", "Failed to initialize agent", unit.file)
             EXCEPT !.raised = TRUE, !.error = "AgentError"]
    ELSE Logged([acc EXCEPT !.registry = DictSet(@, unit.name, Instance(unit, "INITIALIZED"))],
                "info", "Loaded and initialized agent", unit.file)

\* the file filter of load_agents
AgentFileSkipped(file) ==
    \/ StartsWith(file, <<"_">>) \/ StartsWith(file, <<".">>)
    \/ file = F_init_py

\* mutant of AgentFile: a failure is logged and the scan goes on
AgentFile_swallow(unit, acc) ==
    IF AgentFileSkipped(unit.file)
    THEN Logged(acc, "debug", "Skipping", unit.file)
    ELSE IF LoadSingle(unit) = "none"
    THEN Logged([acc EXCEPT !.executed = Append(@, unit.file)],
                "warning", "No valid agent class", unit.file)
    ELSE IF LoadSingle(unit) = "raises" \/ unit.initialize = "raises" \/ unit.metadata = "raises"
    THEN Logged([acc EXCEPT !.executed = Append(@, unit.file)],
                "error", "Agent loading failed", unit.file)
    ELSE Logged([acc EXCEPT !.executed = Append(@, unit.file),
                            !.registry = DictSet(@, unit.name, Instance(unit, "INITIALIZED"))],
                "info", "Loaded and initialized agent", unit.file)

\* one iteration of the loop of load_agents: whatever Exception leaves the
\* try block is logged and raised again as AgentError
AgentFile(unit, acc) ==
    IF AgentFileSkipped(unit.file)
    THEN Logged(acc, "debug", "Skipping", unit.file)
    ELSE Only({ Only({ IF agent_instance = "raises"
                       THEN [Logged(acc1, "error", "Agent loading failed", unit.file)
                                EXCEPT !.raised = TRUE, !.error = "AgentError"]
                       ELSE IF agent_instance = "none"
                       THEN Logged(acc1, "warning", "No valid agent class", unit.file)
                       ELSE Only({ IF r.raised
                                   THEN [Logged(r, "error", "Agent loading failed", unit.file)
                                            EXCEPT !.raised = TRUE, !.error = "AgentError"]
                                   ELSE r :
                                   r \in {AgentManager_initialize_and_register(unit, acc1)} }) :
                       agent_instance \in {LoadSingle(unit)} }) :
                acc1 \in {[acc EXCEPT !.executed = Append(@, unit.file)]} })

\* the loop of load_agents over the files that remain: an exception ends it
RECURSIVE AgentFiles(_, _)
AgentFiles(files, acc) ==
    IF files = <<>> \/ acc.raised
    THEN acc
    ELSE AgentFiles(Tail(files), AgentFile(files[1], acc))

\* AgentManager.load_agents
LoadAgents(dir, registry) ==
    Only({ IF ~dir.exists
           THEN Logged(acc, "warning", "Agent directory missing", <<>>)
           ELSE AgentFiles(dir.files, acc) :
           acc \in {[registry |-> registry, log |-> <<>>, executed |-> <<>>,
                     raised |-> FALSE, error |-> "none"]} })

(***************************************************************************)
(* Components.  A BaseComponent instance is [_status, metadata, inits]:    *)
(* its status, how its get_metadata() behaves, and the number of times its *)
(* status was set to INITIALIZED.                                          *)
(***************************************************************************)
\* BaseComponent.__init__
BaseComponent(metadata) == [_status |-> "CREATED", metadata |-> metadata, inits |-> 0]

\* mutant of BaseComponent_initialize: the status is not tested
BaseComponent_initialize_unguarded(comp) ==
    [comp |-> [comp EXCEPT !._status = "INITIALIZED", !.inits = @ + 1],
     raised |-> comp.metadata = "raises"]

\* BaseComponent.initialize: the log line after the assignment calls
\* get_metadata(), which a subclass may make raise
BaseComponent_initialize(comp) ==
    IF comp._status # "CREATED"
    THEN [comp |-> comp, raised |-> TRUE]
    ELSE [comp |-> [comp EXCEPT !._status = "INITIALIZED", !.inits = @ + 1],
          raised |-> comp.metadata = "raises"]

\* component.status = value: status is a property without a setter, so the
\* assignment raises AttributeError and the component is as it was
BaseComponent_set_status(comp, value) == [comp |-> comp, raised |-> TRUE]

\* PluginManager._initialize_and_register on a BaseComponent instance, up to
\* the registration: plugin.initialize(), then plugin.status = RUNNING; what
\* either raises is handed to _handle_initialization_error, whose own
\* plugin.status = ERROR raises
Component_initialize_and_register(comp) ==
    Only({ IF r.raised
           THEN BaseComponent_set_status(r.comp, "ERROR")
           ELSE Only({ IF running.raised
                       THEN BaseComponent_set_status(running.comp, "ERROR")
                       ELSE running :
                       running \in {BaseComponent_set_status(r.comp, "RUNNING")} }) :
           r \in {BaseComponent_initialize(comp)} })

NoComponents == <<>>
NotInitialized ==
    [called |-> FALSE, id |-> 0, from |-> "CREATED", raised |-> FALSE, by |-> "nobody"]

(***************************************************************************)
(* Actions of the memory specification.                                    *)
(***************************************************************************)
add_message(role, content) ==
    /\ Len(added) < MaxAdds
    /\ LET message == [role |-> role, content |-> content]
       IN  /\ history' = HistoryAfterAdd(history, max_history_length, message)
           /\ added' = Append(added, message)
    /\ got' = NotCalled
    /\ UNCHANGED <<max_history_length, cleared, registryVars, routeVars, sessionVars, componentVars>>

\* mutant of clear_history: the newest message survives the clearing
clear_history_keeps_newest ==
    /\ history' = LastN(history, 1)
    /\ added' = <<>>
    /\ cleared' = TRUE
    /\ got' = NotCalled
    /\ UNCHANGED <<max_history_length, registryVars, routeVars, sessionVars, componentVars>>

\* self.history = []; the session start time, which no operation of the
\* model reads, is not kept
clear_history ==
    /\ history' = <<>>
    /\ added' = <<>>
    /\ cleared' = TRUE
    /\ got' = NotCalled
    /\ UNCHANGED <<max_history_length, registryVars, routeVars, sessionVars, componentVars>>

get_history(num_messages) ==
    /\ got' = [kind |-> "list", n |-> num_messages,
               value |-> HistorySlice(history, num_messages)]
    /\ UNCHANGED <<history, max_history_length, added, cleared, registryVars, routeVars, sessionVars, componentVars>>

get_full_context_text(num_messages) ==
    /\ got' = [kind |-> "text", n |-> num_messages,
               value |-> ContextText(history, num_messages)]
    /\ UNCHANGED <<history, max_history_length, added, cleared, registryVars, routeVars, sessionVars, componentVars>>

InitMemory ==
    /\ history = <<>>
    /\ max_history_length \in 1..MaxHistoryBound
    /\ added = <<>>
    /\ cleared = FALSE
    /\ got = NotCalled
    /\ plugins = <<>>
    /\ agents = <<>>
    /\ quran = FALSE
    /\ scan = NoScan
    /\ loaded = NotLoaded
    /\ loads = 0
    /\ shut = NotShut
    /\ pending_action = NoAction
    /\ fs = [dirs |-> {}, files |-> {}]
    /\ effects = <<>>
    /\ request = NoRequest
    /\ last = NoCall
    /\ prior = NoAction
    /\ calls = 0
    /\ turns = 0
    /\ awaiting = {}
    /\ returned = NoReturn
    /\ components = NoComponents
    /\ initialized = NotInitialized
    /\ init_calls = 0

NextMemory ==
    \/ \E role \in Roles, content \in Contents : add_message(role, content)
    \/ clear_history
    \/ \E n \in -1..(MaxHistoryBound + 1) : get_history(n)

SpecMemory == InitMemory /\ [][NextMemory]_vars

(***************************************************************************)
(* Rendering of the history: get_full_context_text applied to each history *)
(* that a memory of bound MaxHistoryBound can hold.                        *)
(***************************************************************************)
InitContext ==
    /\ max_history_length = MaxHistoryBound
    /\ history \in UNION { [1..n -> [role : Roles, content : Contents]] :
                             n \in 0..max_history_length }
    /\ added = history
    /\ cleared = FALSE
    /\ got = NotCalled
    /\ plugins = <<>>
    /\ agents = <<>>
    /\ quran = FALSE
    /\ scan = NoScan
    /\ loaded = NotLoaded
    /\ loads = 0
    /\ shut = NotShut
    /\ pending_action = NoAction
    /\ fs = [dirs |-> {}, files |-> {}]
    /\ effects = <<>>
    /\ request = NoRequest
    /\ last = NoCall
    /\ prior = NoAction
    /\ calls = 0
    /\ turns = 0
    /\ awaiting = {}
    /\ returned = NoReturn
    /\ components = NoComponents
    /\ initialized = NotInitialized
    /\ init_calls = 0

NextContext ==
    \E n \in -1..(MaxHistoryBound + 1) : get_full_context_text(n)

SpecContext == InitContext /\ [][NextContext]_vars

(***************************************************************************)
(* Actions of the routing specification.                                   *)
(***************************************************************************)
\* assistant.pending_action = action, by the code that owns the assistant
set_pending_action(action) ==
    /\ ~request.active
    /\ pending_action # action
    /\ pending_action' = action
    /\ effects' = <<>>
    /\ last' = NoCall
    /\ prior' = NoAction
    /\ UNCHANGED <<memVars, registryVars, fs, request, calls, sessionVars, componentVars>>

\* a caller invokes dispatcher.route(query, context)
submit(query, context) ==
    /\ ~request.active
    /\ calls < MaxCalls
    /\ request' = [query |-> query, context |-> context, active |-> TRUE]
    /\ effects' = <<>>
    /\ last' = NoCall
    /\ prior' = IF last.called /\ Lower(last.query) = K.yes
                THEN last.before.pending_action
                ELSE NoAction
    /\ UNCHANGED <<memVars, registryVars, pending_action, fs, calls, sessionVars, componentVars>>

\* the call in progress, with every collaborator succeeding
RouteDefault == Route(request.query, request.context, CurrentState, DefaultEnv)

\* the collaborator calls whose outcome the field of env decides
Decides(field, effect) ==
    CASE field = "connect" -> effect.op = "connect"
      [] field = "stock_out" -> effect.op = "process" /\ effect.arg = <<"StockMonitorPlugin">>
      [] field = "plugin_out" -> effect.op = "process" /\ effect.arg # <<"StockMonitorPlugin">>
      [] field = "agent_out" -> effect.op = "process_task"
      [] field = "proc" -> effect.op = "subprocess.run"
      [] field = "fs_ok" -> effect.op \in {"os.makedirs", "os.rename", "open(w)"}

\* env departs from DefaultEnv on a collaborator that the call consults: until
\* the first such call the run is the default one, so no other env changes it
Relevant(env, default_effects) ==
    \E field \in DOMAIN env :
        /\ env[field] # DefaultEnv[field]
        /\ \E i \in 1..Len(default_effects) : Decides(field, default_effects[i])

\* the call runs to its return or to the exception that leaves it, under each
\* behaviour of the collaborators that it consults
route ==
    /\ request.active
    /\ \E default \in {RouteDefault} :
       \E env \in Envs :
          /\ env = DefaultEnv \/ Relevant(env, default.st.effects)
          /\ \E r \in {IF env = DefaultEnv
                        THEN default
                        ELSE Route(request.query, request.context, CurrentState, env)} :
              /\ history' = r.st.history
              /\ pending_action' = r.st.pending_action
              /\ fs' = r.st.fs
              /\ effects' = r.st.effects
              /\ last' = [query |-> request.query, context |-> request.context, env |-> env,
                          called |-> TRUE, before |-> CurrentState,
                          ret |-> r.ret, raised |-> r.raised, trace |-> r.trace,
                          links |-> r.links]
    /\ request' = NoRequest
    /\ calls' = calls + 1
    /\ UNCHANGED <<max_history_length, added, cleared, got, registryVars, prior, sessionVars, componentVars>>

Init ==
    /\ \E a \in Assistants :
          /\ plugins = a.plugins
          /\ agents = a.agents
          /\ quran = a.quran
    /\ scan = NoScan
    /\ loaded = NotLoaded
    /\ loads = 0
    /\ shut = NotShut
    /\ history = SampleHistory
    /\ max_history_length = DefaultMaxHistory
    /\ added = <<>>
    /\ cleared = FALSE
    /\ got = NotCalled
    /\ pending_action = NoAction
    /\ fs = FsInit
    /\ effects = <<>>
    /\ request = NoRequest
    /\ last = NoCall
    /\ prior = NoAction
    /\ calls = 0
    /\ turns = 0
    /\ awaiting = {}
    /\ returned = NoReturn
    /\ components = NoComponents
    /\ initialized = NotInitialized
    /\ init_calls = 0

Next ==
    \/ \E action \in PendingActions : set_pending_action(action)
    \/ \E input \in Inputs : submit(input.query, input.context)
    \/ route

Spec == Init /\ [][Next]_vars

(***************************************************************************)
(* A session: process_query calls on one Assistant, run as tasks of one    *)
(* event loop.  A call runs without interruption from one await that       *)
(* suspends it to the next; of the awaits of the dispatcher the one        *)
(* modelled as suspending is await agent.process_task(...), reached by a   *)
(* query without ";" after stages that have left the state as it was.      *)
(***************************************************************************)
\* the message that add_message stores; turn names the process_query call
\* that added it (as the timestamp does in the code)
Message(role, content, turn) == [role |-> role, content |-> content, turn |-> turn]

\* the flags that process_query reads with context.get
ContextFlags == {"needs_terminal", "needs_package_management", "needs_code_action"}

\* mutant of Responder: the package-management flag is tested first
Responder_package_first(flags) ==
    IF "needs_package_management" \in flags THEN "install_dependencies"
    ELSE IF "needs_terminal" \in flags THEN "handle_terminal_command"
    ELSE IF "needs_code_action" \in flags THEN "suggest_refactoring"
    ELSE "dispatcher.route"

\* the if / elif chain of process_query: the collaborator that produces the
\* response
Responder(flags) ==
    IF "needs_terminal" \in flags THEN "handle_terminal_command"
    ELSE IF "needs_package_management" \in flags THEN "install_dependencies"
    ELSE IF "needs_code_action" \in flags THEN "suggest_refactoring"
    ELSE "dispatcher.route"

\* the calls made on process_query: a context dict with some flags set, or
\* no context at all
SessionInputs ==
    { [query |-> i.query, context |-> i.context, flags |-> f] :
        i \in { j \in Inputs : j.query \in {Q.hello, Q.clear_chat, Q.analyze_dummy2,
                                              Q.tell_me_more, Q.price_of} },
        f \in {{}} }
    \cup { [query |-> Q.hello, context |-> EmptyContext, flags |-> f] :
              f \in (SUBSET ContextFlags) \ {{}} }
    \cup { [query |-> Q.hello, context |-> NoneVal, flags |-> {}] }

\* process_query from self.memory.add_message("assistant", response) on:
\* the debug line slices the response, which raises for None.  flags and
\* omitted tell how the call was made: the flags set in its context, or no
\* context argument at all.
EndOfQuery(turn, query, flags, omitted, r, h) ==
    IF r.raised
    THEN /\ history' = h
         /\ returned' = [called |-> TRUE, turn |-> turn, query |-> query,
                         flags |-> flags, omitted |-> omitted,
                         raised |-> TRUE, response |-> NoneVal]
    ELSE /\ history' = HistoryAfterAdd(h, max_history_length,
                                       Message("assistant", r.ret.value, turn))
         /\ returned' = [called |-> TRUE, turn |-> turn, query |-> query,
                         flags |-> flags, omitted |-> omitted,
                         raised |-> r.ret = NoneVal, response |-> r.ret]

\* a caller starts process_query(query, context): the call runs until it
\* returns, raises, or is suspended in await agent.process_task(...)
process_query(query, context, flags, suspends) ==
    /\ turns < MaxTurns
    /\ turns' = turns + 1
    /\ \E h1 \in {HistoryAfterAdd(history, max_history_length,
                                   Message("user", query, turns + 1))} :
          IF context = NoneVal
          THEN \* context.get raises AttributeError
               /\ ~suspends
               /\ EndOfQuery(turns + 1, query, flags, TRUE, Raise(CurrentState), h1)
               /\ UNCHANGED <<pending_action, fs, effects, awaiting>>
          ELSE IF Responder(flags) # "dispatcher.route"
          THEN /\ ~suspends
               /\ EndOfQuery(turns + 1, query, flags, FALSE,
                             Ret(Str(<<"response of ", Responder(flags)>>), CurrentState), h1)
               /\ effects' = <<Effect(Responder(flags), <<>>)>>
               /\ UNCHANGED <<pending_action, fs, awaiting>>
          ELSE \E default \in {Route(query, context, [CurrentState EXCEPT !.history = h1],
                                     DefaultEnv)} :
               \E env \in Envs :
                  /\ env = DefaultEnv \/ Relevant(env, default.st.effects)
                  /\ \E r \in {IF env = DefaultEnv
                                THEN default
                                ELSE Route(query, context,
                                           [CurrentState EXCEPT !.history = h1], env)} :
                        /\ pending_action' = r.st.pending_action
                        /\ fs' = r.st.fs
                        /\ effects' = <<Effect("dispatcher.route", <<>>)>> \o r.st.effects
                        /\ IF suspends
                           THEN /\ ~Contains(query, <<";">>)
                                /\ \E k \in DOMAIN r.st.effects :
                                      r.st.effects[k].op = "process_task"
                                /\ awaiting' = awaiting \cup
                                      {[turn |-> turns + 1, query |-> query,
                                        ret |-> r.ret, raised |-> r.raised]}
                                /\ history' = r.st.history
                                /\ returned' = NoReturn
                           ELSE /\ EndOfQuery(turns + 1, query, flags, FALSE, r, r.st.history)
                                /\ UNCHANGED awaiting
    /\ UNCHANGED <<max_history_length, added, cleared, got, registryVars, componentVars,
                   request, last, prior, calls>>

\* the awaited process_task of a suspended call is done, and the call runs
\* on to its end
resume_process_query(call) ==
    /\ call \in awaiting
    /\ awaiting' = awaiting \ {call}
    /\ EndOfQuery(call.turn, call.query, {}, FALSE,
                  [ret |-> call.ret, raised |-> call.raised, st |-> CurrentState], history)
    /\ UNCHANGED <<max_history_length, added, cleared, got, registryVars, componentVars,
                   routeVars, turns>>

InitSession ==
    /\ \E a \in Assistants :
          /\ plugins = a.plugins
          /\ agents = a.agents
          /\ quran = a.quran
    /\ scan = NoScan
    /\ loaded = NotLoaded
    /\ loads = 0
    /\ shut = NotShut
    /\ history = <<>>
    /\ max_history_length = DefaultMaxHistory
    /\ added = <<>>
    /\ cleared = FALSE
    /\ got = NotCalled
    /\ pending_action = NoAction
    /\ fs = FsInit
    /\ effects = <<>>
    /\ request = NoRequest
    /\ last = NoCall
    /\ prior = NoAction
    /\ calls = 0
    /\ turns = 0
    /\ awaiting = {}
    /\ returned = NoReturn
    /\ components = NoComponents
    /\ initialized = NotInitialized
    /\ init_calls = 0

NextSession ==
    \/ \E input \in SessionInputs, suspends \in BOOLEAN :
          process_query(input.query, input.context, input.flags, suspends)
    \/ \E call \in awaiting : resume_process_query(call)

SpecSession == InitSession /\ [][NextSession]_vars

\* A freshly constructed Assistant whose callers use process_query and
\* dispatcher.route, and never write its fields.  At most MaxFreshCalls
\* calls are started, each running to its end before the next; the
\* process_query calls have no flag set, all of them, or no context.
MaxFreshCalls == 2
Started == turns + calls + (IF request.active THEN 1 ELSE 0)

NextFresh ==
    \/ \E input \in { i \in SessionInputs : i.flags \in {{}, ContextFlags} } :
          /\ Started < MaxFreshCalls
          /\ ~request.active
          /\ process_query(input.query, input.context, input.flags, FALSE)
    \/ \E input \in Inputs :
          /\ Started < MaxFreshCalls
          /\ submit(input.query, input.context)
    \/ route

SpecFresh == InitSession /\ [][NextFresh]_vars

\* An Assistant with the stock and the conversational plugin registered
\* (without the first the stock stage answers every query), whose memory
\* holds any messages of the three roles, each with a content of its own.
ChatContent(i) == <<"m">> \o NatStr(i)
ChatHistories ==
    UNION { { [i \in 1..n |-> [role |-> roles[i], content |-> ChatContent(i)]] :
                roles \in [1..n -> Roles] } : n \in 0..MaxChatLen }

InitChat ==
    /\ plugins = <<P_stock, P_conv>>
    /\ agents = <<>>
    /\ quran = FALSE
    /\ scan = NoScan
    /\ loaded = NotLoaded
    /\ loads = 0
    /\ shut = NotShut
    /\ history \in ChatHistories
    /\ max_history_length = DefaultMaxHistory
    /\ added = <<>>
    /\ cleared = FALSE
    /\ got = NotCalled
    /\ pending_action = NoAction
    /\ fs = FsInit
    /\ effects = <<>>
    /\ request = NoRequest
    /\ last = NoCall
    /\ prior = NoAction
    /\ calls = 0
    /\ turns = 0
    /\ awaiting = {}
    /\ returned = NoReturn
    /\ components = NoComponents
    /\ initialized = NotInitialized
    /\ init_calls = 0

NextChat ==
    \/ \E query \in {Q.tell_me_more, Q.maybe, Q.hello} : submit(query, EmptyContext)
    \/ route

SpecChat == InitChat /\ [][NextChat]_vars

(***************************************************************************)
(* Actions of the loading specification.                                   *)
(***************************************************************************)
\* await plugin_manager.load_plugins()
load_plugins ==
    /\ loads < MaxLoads
    /\ \E r \in {LoadPlugins(scan, plugins)} :
          /\ plugins' = r.registry
          /\ loaded' = [called |-> TRUE, manager |-> "plugins", raised |-> r.raised,
                        error |-> r.error, log |-> r.log, executed |-> r.executed,
                        before |-> plugins]
    /\ loads' = loads + 1
    /\ shut' = NotShut
    /\ UNCHANGED <<memVars, routeVars, agents, quran, scan, sessionVars, componentVars>>

\* await agent_manager.load_agents()
load_agents ==
    /\ loads < MaxLoads
    /\ \E r \in {LoadAgents(scan, agents)} :
          /\ agents' = r.registry
          /\ loaded' = [called |-> TRUE, manager |-> "agents", raised |-> r.raised,
                        error |-> r.error, log |-> r.log, executed |-> r.executed,
                        before |-> agents]
    /\ loads' = loads + 1
    /\ shut' = NotShut
    /\ UNCHANGED <<memVars, routeVars, plugins, quran, scan, sessionVars, componentVars>>

\* await plugin_manager.shutdown()
shutdown_plugins ==
    /\ \E r \in {PluginManager_shutdown(plugins)} :
          /\ plugins' = r.registry
          /\ shut' = [called |-> TRUE, manager |-> "plugins", raised |-> r.raised,
                      error |-> r.error, attempted |-> r.attempted, log |-> r.log,
                      before |-> plugins]
    /\ UNCHANGED <<memVars, routeVars, agents, quran, scan, loaded, loads, sessionVars, componentVars>>

\* await agent_manager.shutdown()
shutdown_agents ==
    /\ \E r \in {AgentManager_shutdown(agents)} :
          /\ agents' = r.registry
          /\ shut' = [called |-> TRUE, manager |-> "agents", raised |-> r.raised,
                      error |-> r.error, attempted |-> r.attempted, log |-> r.log,
                      before |-> agents]
    /\ UNCHANGED <<memVars, routeVars, plugins, quran, scan, loaded, loads, sessionVars, componentVars>>

InitLoad ==
    /\ history = <<>>
    /\ max_history_length = DefaultMaxHistory
    /\ added = <<>>
    /\ cleared = FALSE
    /\ got = NotCalled
    /\ plugins = <<>>
    /\ agents = <<>>
    /\ quran = FALSE
    /\ scan \in Scans
    /\ loaded = NotLoaded
    /\ loads = 0
    /\ shut = NotShut
    /\ pending_action = NoAction
    /\ fs = [dirs |-> {}, files |-> {}]
    /\ effects = <<>>
    /\ request = NoRequest
    /\ last = NoCall
    /\ prior = NoAction
    /\ calls = 0
    /\ turns = 0
    /\ awaiting = {}
    /\ returned = NoReturn
    /\ components = NoComponents
    /\ initialized = NotInitialized
    /\ init_calls = 0

NextLoad ==
    \/ load_plugins
    \/ load_agents
    \/ shutdown_plugins
    \/ shutdown_agents

SpecLoad == InitLoad /\ [][NextLoad]_vars

(***************************************************************************)
(* Actions of the component specification.                                 *)
(***************************************************************************)
\* component = cls(config)
construct(metadata) ==
    /\ Len(components) < MaxComponents
    /\ components' = Append(components, BaseComponent(metadata))
    /\ initialized' = NotInitialized
    /\ UNCHANGED <<memVars, registryVars, routeVars, sessionVars, init_calls>>

\* components[id].initialize(), called by the component's owner
initialize(id) ==
    /\ init_calls < MaxInitCalls
    /\ \E r \in {BaseComponent_initialize(components[id])} :
          /\ components' = [components EXCEPT ![id] = r.comp]
          /\ initialized' = [called |-> TRUE, id |-> id, from |-> components[id]._status,
                             raised |-> r.raised, by |-> "owner"]
    /\ init_calls' = init_calls + 1
    /\ UNCHANGED <<memVars, registryVars, routeVars, sessionVars>>

\* the plugin manager initializes components[id] to register it
initialize_and_register(id) ==
    /\ init_calls < MaxInitCalls
    /\ \E r \in {Component_initialize_and_register(components[id])},
          i \in {BaseComponent_initialize(components[id])} :
          /\ components' = [components EXCEPT ![id] = r.comp]
          /\ initialized' = [called |-> TRUE, id |-> id, from |-> components[id]._status,
                             raised |-> i.raised, by |-> "manager"]
    /\ init_calls' = init_calls + 1
    /\ UNCHANGED <<memVars, registryVars, routeVars, sessionVars>>

InitComponent ==
    /\ history = <<>>
    /\ max_history_length = DefaultMaxHistory
    /\ added = <<>>
    /\ cleared = FALSE
    /\ got = NotCalled
    /\ plugins = <<>>
    /\ agents = <<>>
    /\ quran = FALSE
    /\ scan = NoScan
    /\ loaded = NotLoaded
    /\ loads = 0
    /\ shut = NotShut
    /\ pending_action = NoAction
    /\ fs = FsInit
    /\ effects = <<>>
    /\ request = NoRequest
    /\ last = NoCall
    /\ prior = NoAction
    /\ calls = 0
    /\ turns = 0
    /\ awaiting = {}
    /\ returned = NoReturn
    /\ components = NoComponents
    /\ initialized = NotInitialized
    /\ init_calls = 0

NextComponent ==
    \/ \E metadata \in {"ok", "raises"} : construct(metadata)
    \/ \E id \in DOMAIN components : initialize(id)
    \/ \E id \in DOMAIN components : initialize_and_register(id)

SpecComponent == InitComponent /\ [][NextComponent]_vars

(***************************************************************************)
(* Claims about ConversationMemory                                         *)
(***************************************************************************)
\* C1: with max_history_length = N >= 1, after any sequence of add_message and
\* clear_history calls the stored history holds at most N messages.
C1_HistoryBounded ==
    Len(history) <= max_history_length

\* C1 witness: an add_message on a full history has completed (more messages
\* were added than the bound allows) and the history sits exactly at the bound.
C1_Witness ==
    /\ Len(added) > max_history_length
    /\ Len(history) = max_history_length

\* C2: on a fresh ConversationMemory(N), after N+k add_message calls
\* get_history() returns exactly the last N messages added, oldest first
\* (before the bound is reached it returns all of them).
C2_FifoLastN ==
    (~cleared /\ got.kind = "list" /\ got.n = -1)
        => got.value = LastN(added, max_history_length)

\* C2 witness: at least one overflowing add has happened on a fresh memory and
\* get_history() has been called, returning the last N messages.
C2_Witness ==
    /\ ~cleared
    /\ Len(added) > max_history_length
    /\ got.kind = "list"
    /\ got.n = -1
    /\ Len(got.value) = max_history_length
    /\ got.value # added

(***************************************************************************)
(* Claims about RequestDispatcher.route                                    *)
(***************************************************************************)
\* The positions at which a segment of q starts: the first one and the one
\* after each ";".
SegmentStarts(q) == {1} \cup {k + 1 : k \in {j \in 1..Len(q) : q[j] = ";"}}

\* The last position of the segment of q that starts at i (i - 1 for an empty one).
SegmentEnd(q, i) ==
    CHOOSE j \in (i - 1)..Len(q) :
        /\ \A k \in i..j : q[k] # ";"
        /\ j = Len(q) \/ q[j + 1] = ";"

\* The segments of q between its ";", left to right, the empty ones included.
Segments(q) ==
    [n \in 1..Cardinality(SegmentStarts(q)) |->
        LET i == CHOOSE b \in SegmentStarts(q) :
                     Cardinality({c \in SegmentStarts(q) : c < b}) = n - 1
        IN  SubSeq(q, i, SegmentEnd(q, i))]

\* The trimmed segments of q that are not empty.
NonEmptyTrimmed(q) ==
    SelectSeq([n \in DOMAIN Segments(q) |-> Strip(Segments(q)[n])], LAMBDA x : x # <<>>)

\* The segments routed one after the other, each alone, in the state that the
\* one before it left: ok when each returned a string, with the strings.
RECURSIVE RoutedAlone(_, _, _, _, _)
RoutedAlone(segs, context, st, env, responses) ==
    IF segs = <<>>
    THEN [ok |-> TRUE, responses |-> responses, st |-> st]
    ELSE Only({ IF r.raised \/ r.ret.kind # "str"
                THEN [ok |-> FALSE, responses |-> responses, st |-> r.st]
                ELSE RoutedAlone(Tail(segs), context, r.st, env, Append(responses, r.ret.value)) :
                r \in {Route(segs[1], context, st, env)} })

\* The strings one per line.
RECURSIVE Lines(_)
Lines(responses) ==
    IF responses = <<>> THEN <<>>
    ELSE IF Len(responses) = 1 THEN responses[1]
    ELSE responses[1] \o <<"\n">> \o Lines(Tail(responses))

\* The assistant's state when the call returned.
StateAfter ==
    [history |-> history, pending_action |-> pending_action, fs |-> fs, effects |-> effects]

StageOrder ==
    <<"internal", "neovim", "project", "confirmation", "quran", "stock", "agent",
      "conversational", "web_search", "general_llm", "fallback">>

\* C4: for a query without ";" the stages are tried in the order of StageOrder;
\* a stage is consulted only if every stage before it returned the
\* not-applicable sentinel, and the first stage that returns anything else (an
\* empty string included) supplies the response, no later stage being invoked.
C4_StageOrder ==
    (last.called /\ ~Contains(last.query, <<";">>)) =>
        /\ Len(last.trace) \in 1..Len(StageOrder)
        /\ \A i \in 1..Len(last.trace) : last.trace[i].stage = StageOrder[i]
        /\ \A i \in 1..(Len(last.trace) - 1) : last.trace[i].out = "declined"
        /\ last.trace[Len(last.trace)].out # "declined"
        /\ last.raised <=> last.trace[Len(last.trace)].out = "raised"
        /\ (~last.raised /\ Len(last.trace) <= 7) => last.ret # NoneVal
        /\ (~last.raised /\ Len(last.trace) = 6 /\ HasPlugin("StockMonitorPlugin"))
               => last.ret = last.env.stock_out

\* C4 witness: the stock stage returned the empty string, which became the
\* response of route, the five stages before it having declined.
C4_Witness ==
    /\ last.called
    /\ ~last.raised
    /\ last.ret = Str(<<>>)
    /\ Len(last.trace) = 6
    /\ last.trace[6] = [stage |-> "stock", out |-> "returned"]

\* C5, as stated: for every query, context and configuration route returns a
\* string: no exception leaves the dispatcher and the result is never a
\* non-string value.
C5_AlwaysString ==
    last.called => (~last.raised /\ last.ret.kind = "str")

\* C6: with a pending action and the query "no" (after lower-casing), routing
\* empties the slot, returns the cancellation message and performs none of the
\* stored action's side effects: no command is run, no file or directory is
\* created or moved.
C6_NoCancels ==
    (last.called /\ Lower(last.query) = <<"n", "o">> /\ last.before.pending_action # NoAction) =>
        /\ ~last.raised
        /\ last.ret = Str(<<"Action cancelled.">>)
        /\ pending_action = NoAction
        /\ effects = <<>>
        /\ fs = last.before.fs

\* C6 witness: "No" was answered to a pending resolve_basproject_issues.
C6_Witness ==
    /\ last.called
    /\ last.query = Q.no
    /\ last.before.pending_action.type = "resolve_basproject_issues"
    /\ last.ret = Str(<<"Action cancelled.">>)
    /\ pending_action = NoAction

\* The positions of effects at which a command was run.
Runs == {i \in DOMAIN effects : effects[i].op = "subprocess.run"}

\* The command line that was run ends with the command c.
RunsCommand(line, c) ==
    Len(line) >= Len(c) /\ SubSeq(line, Len(line) - Len(c) + 1, Len(line)) = c

\* "yes" answered to a pending action of the given type runs its command
\* exactly once and leaves the slot empty.
YesRunsOnce(type) ==
    (/\ last.called
     /\ Lower(last.query) = <<"y", "e", "s">>
     /\ last.before.pending_action.type = type) =>
        /\ Cardinality(Runs) = 1
        /\ \A i \in Runs : RunsCommand(effects[i].arg, last.before.pending_action.arg)
        /\ pending_action = NoAction

YesOrNo(s) == Lower(s) \in {<<"y", "e", "s">>, <<"n", "o">>}

\* The query, or one of its trimmed segments when it contains ";", is "yes" or "no".
AnswersPending(q) ==
    IF Contains(q, <<";">>)
    THEN \E i \in DOMAIN NonEmptyTrimmed(q) : YesOrNo(NonEmptyTrimmed(q)[i])
    ELSE YesOrNo(q)

\* C8, amended: with a pending action and a query that neither is "yes" or
\* "no" nor, containing ";", has a trimmed segment that is, the confirmation
\* stage declines where it is consulted and the pending action is present
\* and unchanged when routing ends.
C8_OtherInputKeepsPending ==
    (last.called /\ last.before.pending_action # NoAction /\ ~AnswersPending(last.query)) =>
        /\ pending_action = last.before.pending_action
        /\ \A i \in DOMAIN last.trace :
               last.trace[i].stage = "confirmation" => last.trace[i].out = "declined"
        /\ \A k \in DOMAIN last.links : last.links[k].before.pending_action = pending_action

\* C8 witness: "tell me more" was routed with a pending action; the
\* confirmation stage declined, later stages handled the query and the action
\* is still pending.
C8_Witness ==
    /\ last.called
    /\ last.query = Q.tell_me_more
    /\ last.before.pending_action.type = "resolve_basproject_issues"
    /\ Len(last.trace) > 4
    /\ last.trace[4] = [stage |-> "confirmation", out |-> "declined"]
    /\ pending_action = last.before.pending_action

\* C8, as stated: with a pending action and a query other than exactly "yes"
\* or "no", the pending action is present and unchanged when routing returns.
C8_AnythingElseKeepsPending ==
    (last.called /\ ~last.raised /\ last.before.pending_action # NoAction /\ ~YesOrNo(last.query)) =>
        pending_action = last.before.pending_action

(***************************************************************************)
(* Claims about the registries                                             *)
(***************************************************************************)
\* The registry holds the unit of that file under that name.
RegisteredAs(registry, name, file) ==
    \E k \in DOMAIN registry : registry[k].name = name /\ registry[k].inst.file = file

\* A record of that level about that file was logged by the load.
LoggedAbout(level, file) ==
    \E k \in DOMAIN loaded.log : loaded.log[k].level = level /\ loaded.log[k].about = file

\* A candidate file of load_plugins whose every step succeeds.
PluginWellFormed(u) ==
    /\ ~(u.file[1] \in {"_", "."} \/ u.file \in {F_init_py, F_base_py})
    /\ u.import = "ok" /\ u.class /\ u.construct = "ok"
    /\ u.has_initialize /\ u.initialize = "ok" /\ u.set_status # "raises" /\ u.metadata = "ok"

\* A candidate file of load_plugins that fails to import, construct or initialize.
PluginFails(u) ==
    /\ ~(u.file[1] \in {"_", "."} \/ u.file \in {F_init_py, F_base_py})
    /\ \/ u.import = "raises"
       \/ u.class /\ \/ u.construct = "raises"
                     \/ ~u.has_initialize
                     \/ u.initialize = "raises"
                     \/ u.set_status = "raises"
                     \/ u.metadata = "raises"

\* C9: during load_plugins a candidate file that fails to import, construct or
\* initialize is logged and skipped: load_plugins does not raise, the failing
\* unit is absent from the registry, and every well-formed plugin of the
\* directory is registered whatever its position in the scan relative to the
\* failing file (under a name that several well-formed plugins declare, the
\* registry holds the one scanned last).
C9_PluginFailureSkipped ==
    (loaded.called /\ loaded.manager = "plugins") =>
        /\ ~loaded.raised
        /\ \A i \in DOMAIN scan.files :
             PluginFails(scan.files[i]) =>
                /\ LoggedAbout("error", scan.files[i].file)
                /\ \A k \in DOMAIN plugins : plugins[k].inst.file # scan.files[i].file
        /\ \A i \in DOMAIN scan.files :
             PluginWellFormed(scan.files[i]) =>
                /\ LoggedAbout("info", scan.files[i].file)
                /\ \E j \in i..Len(scan.files) :
                      /\ PluginWellFormed(scan.files[j])
                      /\ scan.files[j].name = scan.files[i].name
                      /\ \A m \in (j + 1)..Len(scan.files) :
                            ~(PluginWellFormed(scan.files[m])
                              /\ scan.files[m].name = scan.files[i].name)
                      /\ RegisteredAs(plugins, scan.files[i].name, scan.files[j].file)

\* C9 witness: load_plugins has scanned a file that fails to import, then a
\* well-formed plugin, then a file that fails to initialize, and the registry
\* holds the plugin.
C9_Witness ==
    /\ loaded.called
    /\ loaded.manager = "plugins"
    /\ Len(scan.files) = 3
    /\ scan.files[1].import = "raises"
    /\ PluginWellFormed(scan.files[2])
    /\ PluginFails(scan.files[3]) /\ scan.files[3].initialize = "raises"
    /\ RegisteredAs(plugins, scan.files[2].name, scan.files[2].file)
    /\ Len(plugins) = 1

\* A candidate file of load_agents whose every step succeeds.
AgentWellFormed(u) ==
    /\ ~(u.file[1] \in {"_", "."} \/ u.file = F_init_py)
    /\ u.import = "ok" /\ u.class /\ u.construct = "ok"
    /\ u.initialize = "ok" /\ u.metadata = "ok"

\* A candidate file of load_agents that fails to load or initialize.
AgentFails(u) ==
    /\ ~(u.file[1] \in {"_", "."} \/ u.file = F_init_py)
    /\ \/ u.import = "raises"
       \/ u.class /\ \/ u.construct = "raises"
                     \/ u.initialize = "raises"
                     \/ u.metadata = "raises"

\* C10: during load_agents an agent file that fails to load or initialize is
\* logged and the failure leaves load_agents as AgentError; the agents
\* registered before the failing file stay registered and the files after it
\* in the scan are never loaded.
C10_AgentFailureRaised ==
    (loaded.called /\ loaded.manager = "agents") =>
        \A f \in DOMAIN scan.files :
            (AgentFails(scan.files[f]) /\ \A i \in 1..(f - 1) : ~AgentFails(scan.files[i])) =>
                /\ loaded.raised
                /\ loaded.error = "AgentError"
                /\ LoggedAbout("error", scan.files[f].file)
                /\ \A k \in DOMAIN loaded.before :
                      \E m \in DOMAIN agents : agents[m].name = loaded.before[k].name
                /\ \A i \in 1..(f - 1) :
                      AgentWellFormed(scan.files[i]) =>
                         \E j \in i..(f - 1) :
                            /\ AgentWellFormed(scan.files[j])
                            /\ scan.files[j].name = scan.files[i].name
                            /\ \A m \in (j + 1)..(f - 1) :
                                  ~(AgentWellFormed(scan.files[m])
                                    /\ scan.files[m].name = scan.files[i].name)
                            /\ RegisteredAs(agents, scan.files[i].name, scan.files[j].file)
                /\ \A i \in (f + 1)..Len(scan.files) :
                      /\ \A k \in DOMAIN loaded.executed : loaded.executed[k] # scan.files[i].file
                      /\ \A k \in DOMAIN agents : agents[k].inst.file # scan.files[i].file

\* C10 witness: load_agents registered a first agent, failed on the second
\* file and left as AgentError without loading the well-formed third file.
C10_Witness ==
    /\ loaded.called
    /\ loaded.manager = "agents"
    /\ loaded.raised
    /\ Len(scan.files) = 3
    /\ AgentWellFormed(scan.files[1])
    /\ AgentFails(scan.files[2])
    /\ AgentWellFormed(scan.files[3])
    /\ RegisteredAs(agents, scan.files[1].name, scan.files[1].file)
    /\ Len(agents) = 1
    /\ loaded.executed = <<scan.files[1].file, scan.files[2].file>>

(***************************************************************************)
(* Shutdown of the registries.                                             *)
(***************************************************************************)
\* The names of the components a registry holds.
NamesOf(registry) == { registry[k].name : k \in DOMAIN registry }

\* C11: shutdown() of a registry attempts the shutdown hook of every
\* component registered when it was called, whether or not the hook of
\* another component raised.
C11_ShutdownAttemptsAll ==
    shut.called =>
        { shut.attempted[k] : k \in DOMAIN shut.attempted } = NamesOf(shut.before)

\* C12: shutdown() leaves the registry as it found it, whether it returned
\* or raised: the same names, in the same order, bound to the same instances.
C12_ShutdownKeepsRegistry ==
    shut.called =>
        /\ shut.manager = "agents" => agents = shut.before
        /\ shut.manager = "plugins" => plugins = shut.before
        /\ \A k \in DOMAIN shut.before :
              RegisteredAs(IF shut.manager = "agents" THEN agents ELSE plugins,
                           shut.before[k].name, shut.before[k].inst.file)

\* AgentManager.shutdown raised at the first of two registered agents, and
\* both are still registered.
C12_Witness ==
    /\ shut.called
    /\ shut.manager = "agents"
    /\ shut.raised
    /\ Len(shut.before) = 2
    /\ shut.attempted = <<shut.before[1].name>>
    /\ Len(agents) = 2

(***************************************************************************)
(* Duplicate names in a registry.                                          *)
(***************************************************************************)
\* The registry that the load just completed has filled.
LoadedRegistry == IF loaded.manager = "agents" THEN agents ELSE plugins

\* The positions of the scan whose unit that load has initialized and
\* registered: the file was reached and its every step succeeded.
Initialized ==
    { i \in DOMAIN scan.files :
        /\ \E k \in DOMAIN loaded.executed : loaded.executed[k] = scan.files[i].file
        /\ IF loaded.manager = "agents"
           THEN AgentWellFormed(scan.files[i])
           ELSE PluginWellFormed(scan.files[i]) }

\* C19: a registry holds at most one instance per metadata name: of the units
\* of one name that a load has initialized, the one scanned last is the one
\* get(name) returns, the replacement is logged neither as a warning nor as an
\* error, and the registry has one entry per distinct name initialized by that
\* load or registered before it.
C19_LastScannedWins ==
    loaded.called =>
        /\ \A k, m \in DOMAIN LoadedRegistry :
              LoadedRegistry[k].name = LoadedRegistry[m].name => k = m
        /\ \A i \in Initialized :
              /\ \E j \in Initialized :
                    /\ scan.files[j].name = scan.files[i].name
                    /\ \A m \in Initialized :
                          scan.files[m].name = scan.files[i].name => m <= j
                    /\ RegisteredAs(LoadedRegistry, scan.files[i].name, scan.files[j].file)
              /\ ~LoggedAbout("warning", scan.files[i].file)
              /\ ~LoggedAbout("error", scan.files[i].file)
        /\ Len(LoadedRegistry) =
              Cardinality(NamesOf(loaded.before)
                          \cup { scan.files[i].name : i \in Initialized })

\* Two units of one name were initialized by a load, with a unit of another
\* name between them, and the registry binds the name to the later one.
C19_Witness ==
    /\ loaded.called
    /\ Len(scan.files) = 3
    /\ Initialized = {1, 2, 3}
    /\ scan.files[1].name = scan.files[3].name
    /\ scan.files[2].name # scan.files[1].name
    /\ Len(LoadedRegistry) = 2
    /\ RegisteredAs(LoadedRegistry, scan.files[1].name, scan.files[3].file)

(***************************************************************************)
(* Reading the history.                                                    *)
(***************************************************************************)
\* C17: get_history(n) with n >= 0 returns the last min(n, |h|) messages of
\* the stored history h, oldest first, so that n = 0 yields the empty list;
\* get_history() and get_history(-1) return all of h.
C17_GetHistoryLastN ==
    got.kind = "list" =>
        /\ got.n >= 0 => got.value = LastN(history, got.n)
        /\ got.n = -1 => got.value = history

\* The line that renders one message: the role with its first letter
\* capitalised, a colon, a space, the content.
RenderedLine(msg) ==
    <<UpperChar(RoleText(msg.role)[1])>> \o Tail(RoleText(msg.role))
        \o <<":", " ">> \o msg.content

\* C18: get_full_context_text(n) is the last n messages (all of them for -1),
\* each rendered as a line, joined by single newlines, with nothing before the
\* first line or after the last.
C18_ContextText ==
    got.kind = "text" =>
        got.value =
            Join([k \in DOMAIN LastN(history, IF got.n = -1 THEN Len(history) ELSE got.n)
                     |-> RenderedLine(LastN(history,
                                            IF got.n = -1 THEN Len(history) ELSE got.n)[k])],
                 <<"\n">>)


(***************************************************************************)
(* The stock stage and the agent-delegation stage.                         *)
(***************************************************************************)
\* The query holds one of the keywords of the stock stage.
StockKeyword(query_lower) ==
    \/ Contains(query_lower, K.price_of)
    \/ Contains(query_lower, K.overview_of)
    \/ ContainsAny(query_lower, {K.stock, K.monitor, K.finance, K.market})

\* C16: the stock stage is keyword-gated: consulted for a query that holds
\* none of its keywords it declines, whether or not a StockMonitorPlugin is
\* registered, and the 'unavailable' message answers keyword-matching queries
\* only.
C16_StockKeywordGated ==
    (/\ last.called
     /\ ~Contains(last.query, <<";">>)
     /\ Len(last.trace) >= 6
     /\ ~StockKeyword(Lower(last.query)))
        => /\ last.trace[6] = [stage |-> "stock", out |-> "declined"]
           /\ last.ret # Str(T.no_stock)

\* That route call made this call on a collaborator.
Called(op, arg) == \E k \in DOMAIN effects : effects[k] = Effect(op, arg)

\* C14: with an agent registered that handles exactly the queries containing
\* 'dummy', and returns its result, routing 'analyze this dummy code' with code
\* in the context hands an analyze_code task to an agent and answers with the
\* agent's result; with no code in the context it answers with the explicit
\* error message.
C14_DummyAnalyze ==
    (/\ last.called
     /\ last.query = Q.analyze_dummy
     /\ last.env.agent_out = "result"
     /\ \E i \in DOMAIN agents : agents[i] = A_dummy)
        => IF last.context.code # <<>>
           THEN /\ ~last.raised
                /\ \E i \in DOMAIN agents : Called("process_task", <<agents[i].name, "analyze_code">>)
                /\ last.ret = Str(<<"Code Agent: ", "result of ", "analyze_code">>)
           ELSE /\ ~last.raised
                /\ last.ret = Str(T.need_code)

\* The process_task calls of that route call, the agents whose
\* can_handle_query it called, and the agents that can handle its query.
TaskCalls == { k \in DOMAIN effects : effects[k].op = "process_task" }
ConsultedAgents ==
    { effects[k].arg[1] : k \in { m \in DOMAIN effects : effects[m].op = "can_handle_query" } }
Capable(i) == can_handle_query(agents[i], last.query)
\* At most one process_task call, made on the first agent of the registry
\* order that can handle the query.
OneTaskToFirstCapable ==
    /\ Cardinality(TaskCalls) <= 1
    /\ \A k \in TaskCalls :
          \E i \in DOMAIN agents :
              /\ agents[i].name = effects[k].arg[1]
              /\ Capable(i)
              /\ \A j \in 1..(i - 1) : ~Capable(j)
              /\ ConsultedAgents = { agents[j].name : j \in 1..i }

\* C15: in the agent-delegation stage of a routed query at most one agent's
\* process_task is invoked, on the first agent in registry order whose
\* can_handle_query is true, and once an agent that can handle the query has
\* been found no agent later in the order is consulted.
C15_NoLaterAgentConsulted ==
    (last.called /\ ~Contains(last.query, <<";">>)) =>
        /\ OneTaskToFirstCapable
        /\ \A i, j \in DOMAIN agents :
              (i < j /\ Capable(i)) => agents[j].name \notin ConsultedAgents

(***************************************************************************)
(* The exchange recorded by process_query.                                 *)
(***************************************************************************)
\* C13: a process_query call that returns has appended the user's query and
\* then the assistant's response, whatever the query and the flags: with a
\* bound of at least 2 they are the last two entries of the memory when the
\* call returns.
C13_BothSidesRecorded ==
    (returned.called /\ ~returned.raised /\ max_history_length >= 2) =>
        /\ Len(history) >= 2
        /\ history[Len(history) - 1] = Message("user", returned.query, returned.turn)
        /\ history[Len(history)] =
              Message("assistant", returned.response.value, returned.turn)

\* C20: the memory never holds a message of another call between the user
\* message of a process_query call and the assistant message of that call.
C20_TurnsNotInterleaved ==
    \A i, j \in DOMAIN history :
        (/\ i < j
         /\ history[i].turn = history[j].turn
         /\ history[i].role = "user"
         /\ history[j].role = "assistant") => j = i + 1

(***************************************************************************)
(* Clearing the history.                                                   *)
(***************************************************************************)
\* The history of a freshly constructed memory of that bound after these
\* add_message calls.
RECURSIVE FreshHistory(_, _)
FreshHistory(msgs, limit) ==
    IF msgs = <<>>
    THEN <<>>
    ELSE HistoryAfterAdd(FreshHistory(SubSeq(msgs, 1, Len(msgs) - 1), limit),
                         limit, msgs[Len(msgs)])

\* C23: clear_history empties the log and leaves the bound as it was: right
\* after it get_history() is empty, and after any add_message calls that
\* follow the history is the one a freshly constructed memory of the same
\* bound holds after the same calls.
C23_ClearIsFresh ==
    [][ /\ max_history_length' = max_history_length
        /\ cleared' =>
              /\ history' = FreshHistory(added', max_history_length')
              /\ added' = <<>> => history' = <<>>
              /\ (got'.kind = "list" /\ got'.n = -1 /\ added' = <<>>) => got'.value = <<>>
      ]_vars

\* After a clear_history more messages than the bound allows were added, and
\* get_history() was called.
C23_Witness ==
    /\ cleared
    /\ Len(added) > max_history_length
    /\ got.kind = "list" /\ got.n = -1
    /\ got.value = LastN(added, max_history_length)

(***************************************************************************)
(* The handler that process_query runs.                                    *)
(***************************************************************************)
\* The four handlers of process_query.
QueryHandlers ==
    {"handle_terminal_command", "install_dependencies", "suggest_refactoring",
     "dispatcher.route"}

\* The handlers that ran during the process_query call started last.
HandlersRun ==
    { effects[k].op : k \in { j \in DOMAIN effects : effects[j].op \in QueryHandlers } }

\* The process_query call started last was given a context, and has returned.
LastCallReturned ==
    returned.called /\ returned.turn = turns /\ ~returned.omitted

C29_OmittedContextRouted ==
    (returned.called /\ returned.omitted /\ returned.turn = turns) =>
        /\ ~returned.raised
        /\ returned.response.kind = "str"
        /\ HandlersRun = {"dispatcher.route"}
        /\ Len(history) >= 2
        /\ history[Len(history) - 1] = Message("user", returned.query, returned.turn)
        /\ history[Len(history)].role = "assistant"

(***************************************************************************)
(* The pending-action slot of a fresh Assistant.                           *)
(***************************************************************************)
\* C28: from a freshly constructed Assistant, whatever process_query and
\* route calls are made, the pending-action slot stays empty.
C28_NoDialogOpened ==
    pending_action = NoAction

\* After a process_query call and a route call of "yes" the slot is empty.
C28_Witness ==
    /\ turns >= 1
    /\ last.called /\ last.query = Q.yes
    /\ \E k \in DOMAIN history : history[k].role = "assistant"
    /\ pending_action = NoAction

(***************************************************************************)
(* The project-review stage.                                               *)
(***************************************************************************)
\* The query holds one of the keywords of the project-review stage.
ProjectKeyword(query_lower) ==
    \/ Contains(query_lower, K.review_project)
    \/ Contains(query_lower, K.analyze_code)
    \/ Contains(query_lower, K.project_structure)

\* C22: a query without ";" that the internal-command stage declines and that
\* holds 'review project', 'analyze code' or 'project structure' is answered
\* by the project-review stage: with the project review when the context
\* supplies project_path, otherwise with the message asking for a path.
C22_ProjectStageAnswers ==
    (/\ last.called
     /\ ~Contains(last.query, <<";">>)
     /\ last.trace[1] = [stage |-> "internal", out |-> "declined"]
     /\ ProjectKeyword(Lower(last.query)))
        => /\ ~last.raised
           /\ Len(last.trace) = 3
           /\ last.trace[3] = [stage |-> "project", out |-> "returned"]
           /\ last.ret = IF last.context.project_path # <<>>
                         THEN conduct_project_review(last.context.project_path,
                                                     last.before).ret
                         ELSE Str(T.need_path)

(***************************************************************************)
(* The internal commands.                                                  *)
(***************************************************************************)
\* The command table: the keywords of each entry, in table order.
InternalTable ==
    << {K.hello, K.hi, K.greetings}, {K.how_are_you}, {K.what_is_your_name}, {K.time},
       {K.clear_chat}, {K.list_plugins, K.what_can_you_do} >>

\* The entries of the table that the query matches.
MatchingEntries(query_lower) ==
    { e \in DOMAIN InternalTable : ContainsAny(query_lower, InternalTable[e]) }

\* The response of a table entry.
EntryResponse(e, st) ==
    IF e = 1 THEN Str(T.greeting)
    ELSE IF e = 2 THEN Str(T.how_are_you)
    ELSE IF e = 3 THEN Str(T.name)
    ELSE IF e = 4 THEN Str(T.time)
    ELSE IF e = 5 THEN Str(T.cleared)
    ELSE _list_plugins(st).ret

\* C25: a query answered by the internal-command stage is answered by the
\* earliest table entry it matches, with no other effect than that entry's:
\* only 'clear chat' changes state, and it empties the conversation memory
\* only; every other entry leaves the memory, the pending action and the
\* file system as they were and calls no collaborator.
C25_InternalCommandsFrame ==
    (/\ last.called
     /\ ~Contains(last.query, <<";">>)
     /\ MatchingEntries(Lower(last.query)) # {})
        => LET entries == MatchingEntries(Lower(last.query))
               first == CHOOSE e \in entries : \A f \in entries : e <= f
           IN  /\ last.trace = <<[stage |-> "internal", out |-> "returned"]>>
               /\ ~last.raised
               /\ last.ret = EntryResponse(first, last.before)
               /\ history = IF first = 5 THEN <<>> ELSE last.before.history
               /\ pending_action = last.before.pending_action
               /\ fs = last.before.fs
               /\ effects = <<>>

\* 'clear chat history' matches 'hi' of the first entry and 'clear chat' of
\* the fifth: the greeting answered it and the memory, which was not empty,
\* is as it was, with an action pending.
C25_Witness ==
    /\ last.called
    /\ last.query = Q.clear_chat_history
    /\ MatchingEntries(Lower(last.query)) = {1, 5}
    /\ last.ret = Str(T.greeting)
    /\ history # <<>>
    /\ pending_action # NoAction

(***************************************************************************)
(* Malformed arguments of Quran queries.                                   *)
(***************************************************************************)
\* The routed chapter, verse and recitation queries whose numeric arguments
\* are missing ('quran verse 2', 'play quran'), non-numeric ('quran chapter
\* x', 'quran recite 1 a,b') or malformed ('quran recite 1 1-2-3', with and
\* without 'play').
MalformedQuranQueries ==
    {Q.quran_chapter_x, Q.quran_verse_2, Q.quran_recite_range3, Q.quran_recite_letters,
     Q.play_recite_range3, Q.play_quran}

\* C24: with a Quran knowledge base loaded, a chapter, verse or recitation
\* query whose numeric arguments are missing, non-numeric or malformed is
\* answered by the Quran stage with a usage hint; the stage does not raise
\* and starts no audio playback.
C24_MalformedQuranHint ==
    (last.called /\ quran /\ last.query \in MalformedQuranQueries)
        => /\ ~last.raised
           /\ Len(last.trace) = 5
           /\ last.trace[5] = [stage |-> "quran", out |-> "returned"]
           /\ last.ret \in {Str(T.chapter_hint), Str(T.verse_hint), Str(T.recite_hint)}
           /\ \A k \in DOMAIN effects :
                 effects[k].op \notin {"play_verses_audio", "play_verse_audio"}

(***************************************************************************)
(* The two-step repair workflow.                                           *)
(***************************************************************************)
\* "yes" was routed while an action of that type was pending.
Accepted(type) ==
    /\ last.called
    /\ Lower(last.query) = <<"y", "e", "s">>
    /\ last.before.pending_action.type = type

\* The action that offers to run the test runner of the project at path p.
RunTestsOf(p) ==
    [type |-> "run_basproject_tests",
     arg |-> <<"p","y","t","h","o","n"," ">> \o p \o <<"/">> \o K.test_runner]

\* C27: "yes" to a pending resolve_basproject_issues action for path p
\* performs the repair and leaves a pending run_basproject_tests action whose
\* command names the test runner of p, without running anything; when the
\* test_cases directory cannot be created it returns an error message and
\* leaves the slot empty and the files as they were.  A "yes" that follows
\* the completed repair runs that command once and leaves the slot empty.
C27_RepairThenTests ==
    /\ Accepted("resolve_basproject_issues") =>
          LET p == last.before.pending_action.arg
              dir == PathJoin(p, K.test_cases)
          IN  /\ ~last.raised
              /\ Runs = {}
              /\ IF dir \notin last.before.fs.dirs /\ ~last.env.fs_ok
                 THEN /\ last.ret = Str(<<"Error creating directory ">> \o dir)
                      /\ pending_action = NoAction
                      /\ fs = last.before.fs
                 ELSE /\ pending_action = RunTestsOf(p)
                      /\ last.ret.kind = "str"
                      /\ dir \in fs.dirs
                      /\ last.env.fs_ok =>
                            /\ PathJoin(p, F_your_ai_module) \in fs.files
                            /\ \A f \in {F_basic_queries, F_knowledge_questions} :
                                  PathJoin(p, f) \in last.before.fs.files
                                      => PathJoin(dir, f) \in fs.files
    /\ (/\ last.called
        /\ Lower(last.query) = <<"y", "e", "s">>
        /\ prior.type = "resolve_basproject_issues"
        /\ last.before.pending_action # NoAction) =>
           /\ last.before.pending_action = RunTestsOf(prior.arg)
           /\ Cardinality(Runs) = 1
           /\ \A i \in Runs : RunsCommand(effects[i].arg, RunTestsOf(prior.arg).arg)
           /\ pending_action = NoAction

\* The repair was accepted and completed, and the "yes" after it has run the
\* tests, leaving the slot empty.
C27_Witness ==
    /\ last.called
    /\ last.query = Q.yes
    /\ prior.type = "resolve_basproject_issues"
    /\ last.before.pending_action = RunTestsOf(prior.arg)
    /\ Runs # {}
    /\ pending_action = NoAction

(***************************************************************************)
(* The life cycle of a component.                                          *)
(***************************************************************************)
\* C30: initialize() returns only when called in status CREATED, and then
\* the status is INITIALIZED; called in any other status it raises and the
\* status is as it was; so the status of an instance is set to INITIALIZED
\* at most once, whatever calls are made.
C30_InitializedOnce ==
    /\ \A id \in DOMAIN components : components[id].inits <= 1
    /\ initialized.called =>
          /\ ~initialized.raised =>
                /\ initialized.from = "CREATED"
                /\ components[initialized.id]._status = "INITIALIZED"
          /\ initialized.from # "CREATED" =>
                /\ initialized.raised
                /\ components[initialized.id]._status = initialized.from

\* An instance that had been initialized was initialized again: the call
\* raised and the instance is still INITIALIZED, initialized once.
C30_Witness ==
    /\ initialized.called
    /\ initialized.from = "INITIALIZED"
    /\ initialized.raised
    /\ components[initialized.id]._status = "INITIALIZED"
    /\ components[initialized.id].inits = 1

(***************************************************************************)
(* The chat history of the conversational plugin.                          *)
(***************************************************************************)
\* The positions of the replies of w that have a partner: assistant messages
\* with a user message before them and nothing but messages of other roles
\* in between.
PairedReplies(w) ==
    { j \in DOMAIN w :
        /\ w[j].role = "assistant"
        /\ \E i \in 1..(j - 1) :
              /\ w[i].role = "user"
              /\ \A k \in (i + 1)..(j - 1) : w[k].role \notin {"user", "assistant"} }

\* The partner of the reply at j: the last user message before it.
PartnerOf(w, j) ==
    CHOOSE i \in 1..(j - 1) :
        w[i].role = "user" /\ \A k \in (i + 1)..(j - 1) : w[k].role # "user"

\* The pairs of w, in the order of their replies.
RECURSIVE PairsUpTo(_, _)
PairsUpTo(w, n) ==
    IF n = 0
    THEN <<>>
    ELSE IF n \in PairedReplies(w)
    THEN Append(PairsUpTo(w, n - 1), <<w[PartnerOf(w, n)].content, w[n].content>>)
    ELSE PairsUpTo(w, n - 1)

\* The conversational plugin answered that route call.
ConversationalAnswered ==
    /\ last.called
    /\ last.trace # <<>>
    /\ last.trace[Len(last.trace)].stage = "conversational"

\* C21: the chat history handed to the conversational plugin is built from
\* the last 5 entries of the memory: it holds, in order, one (user,
\* assistant) pair for each assistant message that follows a user message not
\* yet paired, the partner being the most recent such user message; dangling
\* user messages, assistant messages without a partner and system messages
\* are skipped, and building it raises nothing.
C21_ChatHistoryPairs ==
    ConversationalAnswered =>
        LET w == LastN(last.before.history, 5)
            handed == { k \in DOMAIN effects : effects[k].op = "chat_history" }
        IN  /\ Cardinality(handed) = 1
            /\ \A k \in handed :
                  /\ effects[k].arg = ChatHistoryRepr(PairsUpTo(w, Len(w)))
                  /\ k < Len(effects) /\ effects[k + 1].op = "process"
            /\ last.raised => last.env.plugin_out = RaiseOut

\* The memory held six messages: a user message outside the last five, then
\* an assistant message without partner, a pair separated by a system
\* message, and a dangling user message; the plugin was handed the one pair.
C21_Witness ==
    /\ ConversationalAnswered
    /\ [i \in 1..Len(last.before.history) |-> last.before.history[i].role]
          = <<"user", "assistant", "user", "system", "assistant", "user">>
    /\ \E k \in DOMAIN effects :
          effects[k] = Effect("chat_history",
                              ChatHistoryRepr(<< <<ChatContent(3), ChatContent(5)>> >>))
====
